---- MODULE Spec2Model ----
(***************************************************************************)
(* Model of the graph execution engine (ai_agent/graph/graph.rs), the      *)
(* shared agent state (ai_agent/graph/state.rs) and the per-key merge      *)
(* cache (ai_agent/data/cache.rs) with its use by the API layer            *)
(* (ai_agent/tools/api.rs).                                                *)
(***************************************************************************)
EXTENDS Naturals, Sequences, FiniteSets, TLC

VARIABLES
  nodes,          \* StateGraph.nodes: name -> capability
  edges,          \* StateGraph.edges: name -> ordered successor list
  entry_point,    \* StateGraph.entry_point: Option<String>
  compiled,       \* TRUE once compile() has consumed the builder
  registered,     \* name -> the capability given by the latest add_node call for it
  pc,             \* per invocation: position inside CompiledGraph::invoke
  current_state,  \* per invocation: local current_state
  current_node,   \* per invocation: local current_node
  visited,        \* per invocation: local visited set
  result,         \* per invocation: value returned by invoke
  initial_state,  \* per invocation: the argument initial_state
  calls,          \* per invocation: log of node names whose capability was called
  updates,        \* per invocation: log of the updates the capabilities returned
  self0,          \* update_from_partial: the AgentState before the updates
  self,           \* update_from_partial: the AgentState being updated
  u1,             \* update_from_partial: the first PartialAgentStateUpdate
  u2,             \* update_from_partial: the second PartialAgentStateUpdate
  applied,        \* update_from_partial: how many of u1, u2 have been merged
  cache,          \* the Cache behind GLOBAL_CACHE: five maps ticker -> records
  last_call,      \* the latest call made on the Cache: method, ticker, data
  cache_ret,      \* what that call returned
  cache_lock,     \* the Mutex around the Cache: 0 when free, else the task holding the guard
  api_pc,         \* per task: position inside the function of API it runs
  api_ticker,     \* per task: the argument ticker
  api_got,        \* per task: what cache_guard.get_prices(ticker) returned at the lookup
  api_prices,     \* per task: the prices of the response
  api_existing,   \* per task: set_prices' local result (the cached records it read)
  api_ret,        \* per task: what its latest call of API returned
  api_calls,      \* number of calls of the API made so far
  serial,         \* per ticker: the sets done so far, merged one after the other
  api_args        \* per task: the dates and the limit of the call

gvars == <<nodes, edges, entry_point, compiled, registered>>
ivars == <<pc, current_state, current_node, visited, result, initial_state, calls, updates>>
svars == <<self0, self, u1, u2, applied>>
cvars == <<cache, last_call, cache_ret>>
avars == <<cache_lock, api_pc, api_ticker, api_got, api_prices, api_existing, api_ret,
           api_calls, serial, api_args>>
vars == <<gvars, ivars, svars, cvars, avars>>

-----------------------------------------------------------------------------
(* Bounds and input sets *)

MaxEdges == 3

NodeNames == {"A", "B"}
end_node == "END"
Names == NodeNames \cup {end_node}
CapIds == {"start", "analyst", "fail"}
Invocations == {1, 2}

None == <<>>
Some(x) == <<x>>
EmptyMap == [k \in {} |-> 0]

-----------------------------------------------------------------------------
(* AgentState and PartialAgentStateUpdate (state.rs) *)

AgentState_new == [messages |-> <<>>, data |-> EmptyMap, metadata |-> EmptyMap]

PartialAgentStateUpdate_new == [messages |-> None, data |-> None, metadata |-> None]

HashMap_extend_keep(a, b) ==
  [k \in (DOMAIN a) \cup (DOMAIN b) |-> IF k \in DOMAIN a THEN a[k] ELSE b[k]]

\* HashMap::extend: every key of b is inserted, overwriting a's value
HashMap_extend(a, b) ==
  [k \in (DOMAIN a) \cup (DOMAIN b) |-> IF k \in DOMAIN b THEN b[k] ELSE a[k]]

add_messages_front(this, messages) == [this EXCEPT !.messages = messages \o this.messages]

add_messages(this, messages) == [this EXCEPT !.messages = this.messages \o messages]

add_message(this, message) == [this EXCEPT !.messages = Append(this.messages, message)]

merge_state_data(this, data) == [this EXCEPT !.data = HashMap_extend(this.data, data)]

merge_metadata(this, data) == [this EXCEPT !.metadata = HashMap_extend(this.metadata, data)]

update_from_partial(this, update) ==
  LET s1 == IF update.messages # None THEN add_messages(this, update.messages[1]) ELSE this
      s2 == IF update.data # None THEN merge_state_data(s1, update.data[1]) ELSE s1
      s3 == IF update.metadata # None THEN merge_metadata(s2, update.metadata[1]) ELSE s2
  IN s3

-----------------------------------------------------------------------------
(* Node capabilities: deterministic functions of their (state, config)     *)
(* arguments.  "start" is AgentService::start; "analyst" stands for an     *)
(* agent that reports messages and writes data/metadata keys computed from *)
(* the state it was given; "fail" is a capability returning Err.           *)

Ok(v) == [kind |-> "Ok", value |-> v]
Err(m) == [kind |-> "Err", value |-> m]

NodeFunction_call(f, state) ==
  CASE f = "start" -> Ok(PartialAgentStateUpdate_new)
    [] f = "analyst" ->
         Ok([messages |-> Some(<<"sig", "why">>),
             data |-> Some("k" :> Len(state.messages)),
             metadata |-> None])
    [] f = "fail" -> Err(<<"node failed">>)

InitialStates ==
  { AgentState_new,
    [messages |-> <<"user">>, data |-> ("k" :> 7) @@ ("t" :> 1), metadata |-> ("m" :> 1)] }

-----------------------------------------------------------------------------
(* Cache (cache.rs).  A serde_json Value is a string (its characters) or a *)
(* number (its decimal digits); a record is a map from field names to      *)
(* Values.                                                                 *)

Str(chars) == [t |-> "String", v |-> chars]
Num(digits) == [t |-> "Number", v |-> digits]

\* JSON escaping of the characters of a string
RECURSIVE JsonEscape(_)
JsonEscape(chars) ==
  IF chars = <<>> THEN <<>>
  ELSE (IF Head(chars) \in {"\"", "\\"} THEN <<"\\", Head(chars)>> ELSE <<Head(chars)>>)
       \o JsonEscape(Tail(chars))

\* Display for serde_json::Value: the compact JSON text of the value, so a
\* string comes out quoted and escaped
Value_to_string(val) ==
  IF val.t = "String" THEN <<"\"">> \o JsonEscape(val.v) \o <<"\"">> ELSE val.v

\* merged.iter().any(|item| item.get(key_field).map_or(false, |v| v == &Value::String(key)))
HasKey(merged, key_field, key) ==
  \E j \in 1..Len(merged) :
    key_field \in DOMAIN merged[j] /\ merged[j][key_field] = Str(key)

RECURSIVE merge_loop(_, _, _)
merge_loop(merged, new_data, key_field) ==
  IF new_data = <<>> THEN Ok(merged)
  ELSE LET new_item == Head(new_data) IN
       IF key_field \notin DOMAIN new_item
       THEN Err(<<"Missing key field: ", key_field>>)
       ELSE LET key == Value_to_string(new_item[key_field]) IN
            merge_loop(IF HasKey(merged, key_field, key) THEN merged
                       ELSE Append(merged, new_item),
                       Tail(new_data), key_field)

\* a merge that starts from nothing instead of the cached records
merge_data_overwrite(existing, new_data, key_field) == merge_loop(<<>>, new_data, key_field)

merge_data(existing, new_data, key_field) == merge_loop(existing, new_data, key_field)

Cache_new ==
  [price_cache |-> EmptyMap, financial_metric_cache |-> EmptyMap,
   line_items_cache |-> EmptyMap, insider_trades_cache |-> EmptyMap,
   company_news_cache |-> EmptyMap]

\* self.<field>.get(ticker): Some(vec) -> vec.clone(), None -> Vec::new()
Cache_get(c, field, ticker) ==
  IF ticker \in DOMAIN c[field] THEN c[field][ticker] ELSE <<>>

HashMap_insert(m, k, v) == [x \in (DOMAIN m) \cup {k} |-> IF x = k THEN v ELSE m[x]]

\* the records an in-place merge has pushed when it stops at a record that
\* lacks the key field
RECURSIVE merge_in_place(_, _, _)
merge_in_place(merged, new_data, key_field) ==
  IF new_data = <<>> \/ key_field \notin DOMAIN Head(new_data) THEN merged
  ELSE merge_in_place(
         IF HasKey(merged, key_field, Value_to_string(Head(new_data)[key_field]))
         THEN merged ELSE Append(merged, Head(new_data)),
         Tail(new_data), key_field)

Cache_set_in_place(c, field, ticker, data, key_field) ==
  LET merged_data == merge_data(Cache_get(c, field, ticker), data, key_field)
      pushed == merge_in_place(Cache_get(c, field, ticker), data, key_field) IN
  [ret |-> IF merged_data.kind = "Err" THEN merged_data ELSE Ok(<<>>),
   cache |-> [c EXCEPT ![field] = HashMap_insert(c[field], ticker, pushed)]]

\* a setter body whose insert leaves the category with the one key
Cache_set_from_alone(c, existing, field, ticker, data, key_field) ==
  LET merged_data == merge_data(existing, data, key_field) IN
  IF merged_data.kind = "Err" THEN [ret |-> merged_data, cache |-> c]
  ELSE [ret |-> Ok(<<>>),
        cache |-> [c EXCEPT ![field] = (ticker :> merged_data.value)]]

\* the body shared by the five setters, from the records it has read: merge
\* (? returns early), insert
Cache_set_from(c, existing, field, ticker, data, key_field) ==
  LET merged_data == merge_data(existing, data, key_field) IN
  IF merged_data.kind = "Err" THEN [ret |-> merged_data, cache |-> c]
  ELSE [ret |-> Ok(<<>>),
        cache |-> [c EXCEPT ![field] = HashMap_insert(c[field], ticker, merged_data.value)]]

\* a setter: read the records of the ticker, then merge and insert
Cache_set(c, field, ticker, data, key_field) ==
  Cache_set_from(c, Cache_get(c, field, ticker), field, ticker, data, key_field)

\* a get_prices that takes a ticker without an entry for an error
get_prices_or_err(c, ticker) ==
  IF ticker \in DOMAIN c["price_cache"] THEN Ok(c["price_cache"][ticker])
  ELSE Err(<<"Price does not match with ticker ", ticker>>)

get_prices(c, ticker) == Ok(Cache_get(c, "price_cache", ticker))
set_prices(c, ticker, data) == Cache_set(c, "price_cache", ticker, data, "time")
get_financial_metrics(c, ticker) == Ok(Cache_get(c, "financial_metric_cache", ticker))
set_financial_metrics(c, ticker, data) ==
  Cache_set(c, "financial_metric_cache", ticker, data, "report_period")
get_line_items(c, ticker) == Ok(Cache_get(c, "line_items_cache", ticker))
set_line_items(c, ticker, data) == Cache_set(c, "line_items_cache", ticker, data, "report_period")
get_insider_trades(c, ticker) == Ok(Cache_get(c, "insider_trades_cache", ticker))
set_insider_trades(c, ticker, data) ==
  Cache_set(c, "insider_trades_cache", ticker, data, "filing_date")
get_company_news(c, ticker) == Ok(Cache_get(c, "company_news_cache", ticker))
set_company_news(c, ticker, data) == Cache_set(c, "company_news_cache", ticker, data, "date")

InitCache ==
  /\ cache = Cache_new
  /\ last_call = [method |-> "none", ticker |-> "", data |-> <<>>]
  /\ cache_ret = Ok(<<>>)

-----------------------------------------------------------------------------
(* Specification of calls made one after the other on a Cache *)

MaxCached == 3
MaxBatch == 2

Tickers == {"AAPL", "MSFT"}
CacheFields ==
  {"price_cache", "financial_metric_cache", "line_items_cache",
   "insider_trades_cache", "company_news_cache"}

KeyField(field) ==
  CASE field = "price_cache" -> "time"
    [] field = "financial_metric_cache" -> "report_period"
    [] field = "line_items_cache" -> "report_period"
    [] field = "insider_trades_cache" -> "filing_date"
    [] field = "company_news_cache" -> "date"

T1 == Str(<<"t", "1">>)
T2 == Str(<<"t", "2">>)
QuotedT1 == Str(<<"\"", "t", "1", "\"">>)

\* records offered to set_prices: the same identity with two payloads, a
\* second identity, the identity whose text is T1's JSON text, and a record
\* without the identity field; the other setters are offered one record with
\* the identity field and one without
RecordsFor(key_field) ==
  IF key_field = "time"
  THEN { (key_field :> T1) @@ ("open" :> Num(<<"1">>)),
         (key_field :> T1) @@ ("open" :> Num(<<"2">>)),
         (key_field :> T2) @@ ("open" :> Num(<<"1">>)),
         (key_field :> QuotedT1) @@ ("open" :> Num(<<"1">>)),
         ("open" :> Num(<<"1">>)) }
  ELSE { (key_field :> T1) @@ ("open" :> Num(<<"1">>)),
         ("open" :> Num(<<"1">>)) }

BatchesFor(key_field) ==
  UNION {[1..n -> RecordsFor(key_field)] : n \in 1..MaxBatch}

Batches_time == BatchesFor("time")
Batches_report_period == BatchesFor("report_period")
Batches_filing_date == BatchesFor("filing_date")
Batches_date == BatchesFor("date")

RECURSIVE SumOver(_, _)
SumOver(S, c) ==
  IF S = {} THEN 0
  ELSE LET x == CHOOSE y \in S : TRUE IN
       Len(Cache_get(c, x[1], x[2])) + SumOver(S \ {x}, c)

TotalCached == SumOver(CacheFields \X Tickers, cache)

Returns(method, ticker, data, r) ==
  /\ last_call' = [method |-> method, ticker |-> ticker, data |-> data]
  /\ cache_ret' = r.ret
  /\ cache' = r.cache
  /\ UNCHANGED <<gvars, ivars, svars, avars>>

Call_set_prices ==
  LET room == MaxCached - TotalCached IN
  \E ticker \in Tickers, data \in Batches_time :
    /\ Len(data) <= room
    /\ Returns("set_prices", ticker, data, set_prices(cache, ticker, data))

Call_set_financial_metrics ==
  LET room == MaxCached - TotalCached IN
  \E ticker \in Tickers, data \in Batches_report_period :
    /\ Len(data) <= room
    /\ Returns("set_financial_metrics", ticker, data,
               set_financial_metrics(cache, ticker, data))

Call_set_line_items ==
  LET room == MaxCached - TotalCached IN
  \E ticker \in Tickers, data \in Batches_report_period :
    /\ Len(data) <= room
    /\ Returns("set_line_items", ticker, data, set_line_items(cache, ticker, data))

Call_set_insider_trades ==
  LET room == MaxCached - TotalCached IN
  \E ticker \in Tickers, data \in Batches_filing_date :
    /\ Len(data) <= room
    /\ Returns("set_insider_trades", ticker, data, set_insider_trades(cache, ticker, data))

Call_set_company_news ==
  LET room == MaxCached - TotalCached IN
  \E ticker \in Tickers, data \in Batches_date :
    /\ Len(data) <= room
    /\ Returns("set_company_news", ticker, data, set_company_news(cache, ticker, data))

Getter(method, c, ticker) ==
  CASE method = "get_prices" -> get_prices(c, ticker)
    [] method = "get_financial_metrics" -> get_financial_metrics(c, ticker)
    [] method = "get_line_items" -> get_line_items(c, ticker)
    [] method = "get_insider_trades" -> get_insider_trades(c, ticker)
    [] method = "get_company_news" -> get_company_news(c, ticker)

Call_get ==
  \E ticker \in Tickers,
     method \in {"get_prices", "get_financial_metrics", "get_line_items",
                 "get_insider_trades", "get_company_news"} :
    Returns(method, ticker, <<>>, [ret |-> Getter(method, cache, ticker), cache |-> cache])

NextCache ==
  \/ Call_set_prices
  \/ Call_set_financial_metrics
  \/ Call_set_line_items
  \/ Call_set_insider_trades
  \/ Call_set_company_news
  \/ Call_get

-----------------------------------------------------------------------------
(* API::get_price (api.rs) run by several tasks on the global Cache *)

MaxApiCalls == 3

\* the arguments of a call that takes no dates
NoArgs == [end_date |-> <<>>, start_date |-> None, limit |-> 0]

Tasks == {1, 2, 3}

NumberFields == {"open", "close", "high", "low", "volume"}

\* a Price whose numeric fields other than open are 1
PriceOf(time, open) ==
  [open |-> open, close |-> <<"1">>, high |-> <<"1">>, low |-> <<"1">>,
   volume |-> <<"1">>, time |-> time]

\* serde_json::to_value(p_struct) followed by from_value into a HashMap
Price_to_map(p) ==
  [f \in NumberFields \cup {"time"} |-> IF f = "time" THEN Str(p.time) ELSE Num(p[f])]

\* serde_json::to_value(h_map) followed by from_value into a Price: every
\* field of the struct must be there with its type, other fields are ignored
Map_to_price(h) ==
  IF /\ NumberFields \cup {"time"} \subseteq DOMAIN h
     /\ \A f \in NumberFields : h[f].t = "Number"
     /\ h["time"].t = "String"
  THEN Some([f \in NumberFields \cup {"time"} |-> h[f].v])
  ELSE None

\* data.into_iter().filter_map(map to Price).collect()
RECURSIVE prices_from_maps(_)
prices_from_maps(data) ==
  IF data = <<>> THEN <<>>
  ELSE LET x == Map_to_price(Head(data)) IN
       (IF x = None THEN <<>> ELSE <<x[1]>>) \o prices_from_maps(Tail(data))

\* prices.iter().filter_map(Price to map).collect(): the conversion of a
\* Price never fails
maps_from_prices(prices) == [j \in 1..Len(prices) |-> Price_to_map(prices[j])]

ApiPrices == { PriceOf(<<"t", "1">>, <<"1">>), PriceOf(<<"t", "2">>, <<"1">>) }

\* what the remote service can answer: the request fails, the status is not
\* a success, the body does not parse, or a list of prices
Responses ==
  {[kind |-> k, prices |-> <<>>] : k \in {"send_error", "status_error", "json_error"}}
  \cup {[kind |-> "ok", prices |-> ps] : ps \in UNION {[1..n -> ApiPrices] : n \in 0..MaxBatch}}

Mutex_lock_unguarded(p) == TRUE

\* cache.lock(): the caller goes on once no other guard is alive
Mutex_lock(p) == cache_lock = 0

InitApi ==
  /\ cache_lock = 0
  /\ api_pc = [p \in Tasks |-> "idle"]
  /\ api_ticker = [p \in Tasks |-> ""]
  /\ api_got = [p \in Tasks |-> <<>>]
  /\ api_prices = [p \in Tasks |-> <<>>]
  /\ api_existing = [p \in Tasks |-> <<>>]
  /\ api_ret = [p \in Tasks |-> Err(<<"none">>)]
  /\ api_calls = 0
  /\ serial = [t \in Tickers |-> <<>>]
  /\ api_args = [p \in Tasks |-> NoArgs]

\* get_price is called and takes the lock for the lookup
get_price(p, ticker) ==
  /\ api_pc[p] = "idle"
  /\ api_calls < MaxApiCalls
  /\ Mutex_lock(p)
  /\ cache_lock' = p
  /\ api_calls' = api_calls + 1
  /\ api_ticker' = [api_ticker EXCEPT ![p] = ticker]
  /\ api_pc' = [api_pc EXCEPT ![p] = "lookup"]
  /\ UNCHANGED <<api_got, api_prices, api_existing, api_ret, serial, api_args>>
  /\ UNCHANGED <<gvars, ivars, svars, cvars>>

\* a lookup block that goes on to the request whatever is cached
CacheLookup_always_miss(p) ==
  /\ api_pc[p] = "lookup"
  /\ api_got' = [api_got EXCEPT ![p] = get_prices(cache, api_ticker[p]).value]
  /\ api_pc' = [api_pc EXCEPT ![p] = "fetch"]
  /\ cache_lock' = 0
  /\ UNCHANGED <<api_ret, api_ticker, api_prices, api_existing, api_calls, serial, api_args>>
  /\ UNCHANGED <<gvars, ivars, svars, cvars>>

\* a lookup block whose guard lives on after a miss
CacheLookup_keeps_guard(p) ==
  /\ api_pc[p] = "lookup"
  /\ LET cached == get_prices(cache, api_ticker[p])
         prices == prices_from_maps(cached.value) IN
     /\ api_got' = [api_got EXCEPT ![p] = cached.value]
     /\ IF cached.value # <<>> /\ prices # <<>>
        THEN /\ api_ret' = [api_ret EXCEPT ![p] = Ok(prices)]
             /\ api_pc' = [api_pc EXCEPT ![p] = "idle"]
             /\ cache_lock' = 0
        ELSE /\ api_pc' = [api_pc EXCEPT ![p] = "fetch"]
             /\ UNCHANGED <<api_ret, cache_lock>>
  /\ UNCHANGED <<api_ticker, api_prices, api_existing, api_calls, serial, api_args>>
  /\ UNCHANGED <<gvars, ivars, svars, cvars>>

\* the block of the lookup: return the cached prices that deserialize, or
\* drop the guard and go on to the request
CacheLookup(p) ==
  /\ api_pc[p] = "lookup"
  /\ LET cached == get_prices(cache, api_ticker[p])
         prices == prices_from_maps(cached.value) IN
     /\ api_got' = [api_got EXCEPT ![p] = cached.value]
     /\ IF cached.value # <<>> /\ prices # <<>>
        THEN /\ api_ret' = [api_ret EXCEPT ![p] = Ok(prices)]
             /\ api_pc' = [api_pc EXCEPT ![p] = "idle"]
        ELSE /\ api_pc' = [api_pc EXCEPT ![p] = "fetch"]
             /\ UNCHANGED api_ret
  /\ cache_lock' = 0
  /\ UNCHANGED <<api_ticker, api_prices, api_existing, api_calls, serial, api_args>>
  /\ UNCHANGED <<gvars, ivars, svars, cvars>>

\* the request and the decoding of its response
Fetch(p) ==
  /\ api_pc[p] = "fetch"
  /\ \E response \in Responses :
       IF response.kind # "ok"
       THEN /\ api_ret' = [api_ret EXCEPT ![p] = Err(<<"reqwest: ", response.kind>>)]
            /\ api_pc' = [api_pc EXCEPT ![p] = "idle"]
            /\ UNCHANGED api_prices
       ELSE LET prices == response.prices
                data_to_cache_maps == maps_from_prices(prices) IN
            IF prices # <<>> /\ data_to_cache_maps # <<>>
            THEN /\ api_prices' = [api_prices EXCEPT ![p] = prices]
                 /\ api_pc' = [api_pc EXCEPT ![p] = "lock"]
                 /\ UNCHANGED api_ret
            ELSE /\ api_ret' = [api_ret EXCEPT ![p] = Ok(prices)]
                 /\ api_pc' = [api_pc EXCEPT ![p] = "idle"]
                 /\ UNCHANGED api_prices
  /\ UNCHANGED <<cache_lock, api_ticker, api_got, api_existing, api_calls, serial, api_args>>
  /\ UNCHANGED <<gvars, ivars, svars, cvars>>

\* the lock is taken again for the write; set_prices reads the cached records
LockAndRead(p) ==
  /\ api_pc[p] = "lock"
  /\ Mutex_lock(p)
  /\ cache_lock' = p
  /\ api_existing' = [api_existing EXCEPT ![p] = Cache_get(cache, "price_cache", api_ticker[p])]
  /\ api_pc' = [api_pc EXCEPT ![p] = "merge"]
  /\ UNCHANGED <<api_ticker, api_got, api_prices, api_ret, api_calls, serial, api_args>>
  /\ UNCHANGED <<gvars, ivars, svars, cvars>>

\* the write block of get_price from the records set_prices has read: an
\* error of set_prices is logged (if let Err(e) = .. { log::error! }), and
\* the prices of the response are returned in either case
save_prices(c, existing, ticker, data_to_cache_maps, prices) ==
  LET r == Cache_set_from(c, existing, "price_cache", ticker, data_to_cache_maps, "time") IN
  [cache |-> r.cache, set_ret |-> r.ret, ret |-> Ok(prices)]

\* set_prices merges and inserts, its error is logged only; the guard is
\* dropped, the prices of the response are returned and the locals are gone
MergeAndInsert(p) ==
  /\ api_pc[p] = "merge"
  /\ LET data == maps_from_prices(api_prices[p])
         r == save_prices(cache, api_existing[p], api_ticker[p], data, api_prices[p])
         one_by_one == merge_data(serial[api_ticker[p]], data, "time") IN
     /\ cache' = r.cache
     /\ api_ret' = [api_ret EXCEPT ![p] = r.ret]
     /\ serial' = IF one_by_one.kind = "Err" THEN serial
                  ELSE [serial EXCEPT ![api_ticker[p]] = one_by_one.value]
  /\ cache_lock' = 0
  /\ api_pc' = [api_pc EXCEPT ![p] = "idle"]
  /\ api_prices' = [api_prices EXCEPT ![p] = <<>>]
  /\ api_existing' = [api_existing EXCEPT ![p] = <<>>]
  /\ UNCHANGED <<api_ticker, api_got, api_calls, api_args>>
  /\ UNCHANGED <<last_call, cache_ret, gvars, ivars, svars>>

NextApi ==
  \/ \E p \in Tasks, ticker \in Tickers : get_price(p, ticker)
  \/ \E p \in Tasks : CacheLookup(p)
  \/ \E p \in Tasks : Fetch(p)
  \/ \E p \in Tasks : LockAndRead(p)
  \/ \E p \in Tasks : MergeAndInsert(p)

-----------------------------------------------------------------------------
(* The write block of get_price (api.rs:115-125) applied to every batch    *)
(* that set_prices takes, a record without "time" included, and the ? of   *)
(* the risk manager on what get_price returns.                             *)

\* api.get_price(&ticker, start_date, end_date).await? in the risk manager:
\* the node returns early with an error of get_price, and goes on otherwise
risk_manager_try(ret) == IF ret.kind = "Err" THEN Some(ret) ELSE None

SavePrices(p, ticker, data_to_cache_maps, prices) ==
  /\ api_pc[p] = "idle"
  /\ Mutex_lock(p)
  /\ Len(data_to_cache_maps) <= MaxCached - TotalCached
  /\ LET r == save_prices(cache, Cache_get(cache, "price_cache", ticker), ticker,
                          data_to_cache_maps, prices) IN
     /\ cache' = r.cache
     /\ cache_ret' = r.set_ret
     /\ api_ret' = [api_ret EXCEPT ![p] = r.ret]
  /\ last_call' = [method |-> "set_prices", ticker |-> ticker, data |-> data_to_cache_maps]
  /\ api_ticker' = [api_ticker EXCEPT ![p] = ticker]
  /\ UNCHANGED <<cache_lock, api_pc, api_got, api_prices, api_existing, api_calls, serial,
                 api_args>>
  /\ UNCHANGED <<gvars, ivars, svars>>

NextSave ==
  \E p \in {1}, ticker \in Tickers, data_to_cache_maps \in Batches_time,
     prices \in [1..1 -> ApiPrices] :
    SavePrices(p, ticker, data_to_cache_maps, prices)

-----------------------------------------------------------------------------
(* The other fetch functions of API (api.rs) on the global Cache.  Dates   *)
(* are written with one digit, "1" before "2"; a text that is no date is   *)
(* "x"; a timestamp is a date followed by 'T' and the time.                *)

MaxFetched == 2

FetchTasks == {1, 2}
FetchTickers == {"AAPL"}

EndDates == {<<"1">>, <<"2">>, <<"x">>}
StartDates == {None, Some(<<"1">>), Some(<<"2">>)}
Limits == {1}
RequestArgs == [end_date : EndDates, start_date : StartDates, limit : Limits]

Null == [t |-> "Null", v |-> <<"n", "u", "l", "l">>]

\* s.split('T').next().unwrap_or("")
RECURSIVE split_T(_)
split_T(chars) ==
  IF chars = <<>> \/ Head(chars) = "T" THEN <<>>
  ELSE <<Head(chars)>> \o split_T(Tail(chars))

\* NaiveDate::parse_from_str(s, "%Y-%m-%d").ok()
NaiveDate_parse(chars) ==
  IF chars = <<"1">> THEN Some(1) ELSE IF chars = <<"2">> THEN Some(2) ELSE None

\* start_date.map(parse).transpose().unwrap_or_else(|e| None)
target_start_date_opt(start_date) ==
  IF start_date = None THEN None ELSE NaiveDate_parse(start_date[1])

\* the closure of retain: the date parses and lies in the range asked for
in_range(date_str, args) ==
  LET date == NaiveDate_parse(split_T(date_str))
      start == target_start_date_opt(args.start_date)
      end == NaiveDate_parse(args.end_date) IN
  /\ date # None
  /\ start = None \/ date[1] >= start[1]
  /\ date[1] <= end[1]

\* the order of the characters
CharRank(ch) ==
  CASE ch = "0" -> 0 [] ch = "1" -> 1 [] ch = "2" -> 2 [] ch = "T" -> 3 [] OTHER -> 4

\* a < b for strings
RECURSIVE str_lt(_, _)
str_lt(a, b) ==
  IF b = <<>> THEN FALSE
  ELSE IF a = <<>> THEN TRUE
  ELSE IF Head(a) = Head(b) THEN str_lt(Tail(a), Tail(b))
  ELSE CharRank(Head(a)) < CharRank(Head(b))

RECURSIVE insert_desc(_, _)
insert_desc(sorted, x) ==
  IF sorted = <<>> THEN <<x>>
  ELSE IF str_lt(Head(sorted).key, x.key) THEN <<x>> \o sorted
  ELSE <<Head(sorted)>> \o insert_desc(Tail(sorted), x)

\* sort_by(|a, b| key(b).cmp(key(a))) on pairs of a key and an item: the
\* greatest key first, items of equal keys in the order they had
RECURSIVE sort_desc(_)
sort_desc(pairs) ==
  IF pairs = <<>> THEN <<>>
  ELSE insert_desc(sort_desc(SubSeq(pairs, 1, Len(pairs) - 1)), pairs[Len(pairs)])

\* iter().min_by_key(key) on pairs of a key and an item: the first of the
\* items with the least key
RECURSIVE min_by_key(_)
min_by_key(pairs) ==
  IF Len(pairs) = 1 THEN pairs[1]
  ELSE LET m == min_by_key(Tail(pairs)) IN
       IF str_lt(m.key, pairs[1].key) THEN m ELSE pairs[1]

\* what the remote service can answer to a request for a page of items
PageResponses(items, room) ==
  {[kind |-> k, items |-> <<>>] : k \in {"send_error", "status_error", "json_error"}}
  \cup {[kind |-> "ok", items |-> b] : b \in UNION {[1..n -> items] : n \in 0..room}}

\* ---- FinancialMetrics: the four String fields; the Option fields are null

MetricsFields == {"ticker", "report_period", "period", "currency"}

MetricsOf(report_period) ==
  [ticker |-> <<"A">>, report_period |-> report_period, period |-> <<"t">>,
   currency |-> <<"U">>]

Metrics_to_map(m) == [f \in MetricsFields |-> Str(m[f])]

Map_to_metrics(h) ==
  IF MetricsFields \subseteq DOMAIN h /\ \A f \in MetricsFields : h[f].t = "String"
  THEN Some([f \in MetricsFields |-> h[f].v])
  ELSE None

RECURSIVE metrics_from_maps(_)
metrics_from_maps(data) ==
  IF data = <<>> THEN <<>>
  ELSE LET x == Map_to_metrics(Head(data)) IN
       (IF x = None THEN <<>> ELSE <<x[1]>>) \o metrics_from_maps(Tail(data))

maps_from_metrics(metrics) == [j \in 1..Len(metrics) |-> Metrics_to_map(metrics[j])]

ApiMetrics == { MetricsOf(<<"1">>) }

\* get_financial_metrics is called and takes the lock for the lookup
API_get_financial_metrics(p, ticker) ==
  /\ api_pc[p] = "idle"
  /\ api_calls < MaxApiCalls
  /\ Mutex_lock(p)
  /\ cache_lock' = p
  /\ api_calls' = api_calls + 1
  /\ api_ticker' = [api_ticker EXCEPT ![p] = ticker]
  /\ api_pc' = [api_pc EXCEPT ![p] = "fm_lookup"]
  /\ UNCHANGED <<api_got, api_prices, api_existing, api_ret, serial, api_args>>
  /\ UNCHANGED <<gvars, ivars, svars, cvars>>

MetricsLookup(p) ==
  /\ api_pc[p] = "fm_lookup"
  /\ LET cached == get_financial_metrics(cache, api_ticker[p])
         metrics == metrics_from_maps(cached.value) IN
     /\ api_got' = [api_got EXCEPT ![p] = cached.value]
     /\ IF cached.value # <<>> /\ metrics # <<>>
        THEN /\ api_ret' = [api_ret EXCEPT ![p] = Ok(metrics)]
             /\ api_pc' = [api_pc EXCEPT ![p] = "idle"]
        ELSE /\ api_pc' = [api_pc EXCEPT ![p] = "fm_fetch"]
             /\ UNCHANGED api_ret
  /\ cache_lock' = 0
  /\ UNCHANGED <<api_ticker, api_prices, api_existing, api_calls, serial, api_args>>
  /\ UNCHANGED <<gvars, ivars, svars, cvars>>

MetricsFetch(p) ==
  /\ api_pc[p] = "fm_fetch"
  /\ \E response \in PageResponses(ApiMetrics, 1) :
       IF response.kind # "ok"
       THEN /\ api_ret' = [api_ret EXCEPT ![p] = Err(<<"reqwest: ", response.kind>>)]
            /\ api_pc' = [api_pc EXCEPT ![p] = "idle"]
            /\ UNCHANGED api_prices
       ELSE LET metrics == response.items
                data_to_cache_maps == maps_from_metrics(metrics) IN
            IF metrics # <<>> /\ data_to_cache_maps # <<>>
            THEN /\ api_prices' = [api_prices EXCEPT ![p] = metrics]
                 /\ api_pc' = [api_pc EXCEPT ![p] = "fm_lock"]
                 /\ UNCHANGED api_ret
            ELSE /\ api_ret' = [api_ret EXCEPT ![p] = Ok(metrics)]
                 /\ api_pc' = [api_pc EXCEPT ![p] = "idle"]
                 /\ UNCHANGED api_prices
  /\ UNCHANGED <<cache_lock, api_ticker, api_got, api_existing, api_calls, serial, api_args>>
  /\ UNCHANGED <<gvars, ivars, svars, cvars>>

MetricsLockAndRead(p) ==
  /\ api_pc[p] = "fm_lock"
  /\ Mutex_lock(p)
  /\ cache_lock' = p
  /\ api_existing' = [api_existing EXCEPT
                        ![p] = Cache_get(cache, "financial_metric_cache", api_ticker[p])]
  /\ api_pc' = [api_pc EXCEPT ![p] = "fm_merge"]
  /\ UNCHANGED <<api_ticker, api_got, api_prices, api_ret, api_calls, serial, api_args>>
  /\ UNCHANGED <<gvars, ivars, svars, cvars>>

MetricsMergeAndInsert(p) ==
  /\ api_pc[p] = "fm_merge"
  /\ cache' = Cache_set_from(cache, api_existing[p], "financial_metric_cache", api_ticker[p],
                             maps_from_metrics(api_prices[p]), "report_period").cache
  /\ cache_lock' = 0
  /\ api_ret' = [api_ret EXCEPT ![p] = Ok(api_prices[p])]
  /\ api_pc' = [api_pc EXCEPT ![p] = "idle"]
  /\ api_prices' = [api_prices EXCEPT ![p] = <<>>]
  /\ api_existing' = [api_existing EXCEPT ![p] = <<>>]
  /\ UNCHANGED <<api_ticker, api_got, api_calls, serial, api_args>>
  /\ UNCHANGED <<last_call, cache_ret, gvars, ivars, svars>>

\* ---- LineItem: search_line_items does not touch the cache

LineItemOf(report_period) ==
  [ticker |-> <<"A">>, report_period |-> report_period, period |-> <<"t">>,
   currency |-> <<"U">>]

ApiLineItems == { LineItemOf(<<"1">>) }

\* into_iter().take(n).collect()
take(s, n) == SubSeq(s, 1, IF Len(s) < n THEN Len(s) ELSE n)

API_search_line_items(p, ticker, limit) ==
  /\ api_pc[p] = "idle"
  /\ api_calls < MaxApiCalls
  /\ api_calls' = api_calls + 1
  /\ api_ticker' = [api_ticker EXCEPT ![p] = ticker]
  /\ api_args' = [api_args EXCEPT ![p] = [NoArgs EXCEPT !.limit = limit]]
  /\ api_pc' = [api_pc EXCEPT ![p] = "li_fetch"]
  /\ UNCHANGED <<cache_lock, api_got, api_prices, api_existing, api_ret, serial>>
  /\ UNCHANGED <<gvars, ivars, svars, cvars>>

LineItemsFetch(p) ==
  /\ api_pc[p] = "li_fetch"
  /\ \E response \in PageResponses(ApiLineItems, MaxFetched) :
       api_ret' = [api_ret EXCEPT
                     ![p] = IF response.kind # "ok" THEN Err(<<"reqwest: ", response.kind>>)
                            ELSE Ok(take(response.items, api_args[p].limit))]
  /\ api_pc' = [api_pc EXCEPT ![p] = "idle"]
  /\ api_args' = [api_args EXCEPT ![p] = NoArgs]
  /\ UNCHANGED <<cache_lock, api_ticker, api_got, api_prices, api_existing, api_calls, serial>>
  /\ UNCHANGED <<gvars, ivars, svars, cvars>>

\* ---- InsiderTrade: ticker and the two Option dates; the other Option
\* fields are null

TradeDates == {"transaction_date", "filing_date"}

TradeOf(transaction_date, filing_date) ==
  [ticker |-> <<"A">>, transaction_date |-> transaction_date, filing_date |-> filing_date]

Trade_to_map(t) ==
  [f \in TradeDates \cup {"ticker"} |->
     IF f = "ticker" THEN Str(t.ticker) ELSE IF t[f] = None THEN Null ELSE Str(t[f][1])]

\* convert_cached_item_to_model::<InsiderTrade>: an Option field may be
\* missing or null
Map_to_trade(h) ==
  IF /\ "ticker" \in DOMAIN h
     /\ h["ticker"].t = "String"
     /\ \A f \in TradeDates : f \in DOMAIN h => h[f].t \in {"String", "Null"}
  THEN Some([f \in TradeDates \cup {"ticker"} |->
               IF f = "ticker" THEN h[f].v
               ELSE IF f \in DOMAIN h /\ h[f].t = "String" THEN Some(h[f].v) ELSE None])
  ELSE None

RECURSIVE trades_from_maps(_)
trades_from_maps(data) ==
  IF data = <<>> THEN <<>>
  ELSE LET x == Map_to_trade(Head(data)) IN
       (IF x = None THEN <<>> ELSE <<x[1]>>) \o trades_from_maps(Tail(data))

maps_from_trades(trades) == [j \in 1..Len(trades) |-> Trade_to_map(trades[j])]

\* transaction_date.as_deref().or(filing_date.as_deref()).unwrap_or_default()
trade_date_str(t) ==
  IF t.transaction_date # None THEN t.transaction_date[1]
  ELSE IF t.filing_date # None THEN t.filing_date[1] ELSE <<>>

\* filing_date.as_deref().unwrap_or_default()
filing_date_str(t) == IF t.filing_date # None THEN t.filing_date[1] ELSE <<>>

ApiTrades == { TradeOf(None, Some(<<"2", "T", "0">>)), TradeOf(Some(<<"1">>), None) }

\* the items of pairs of a key and an item
ItemsOf(pairs) == [j \in 1..Len(pairs) |-> pairs[j].item]

\* the cached trades in the range asked for, the latest first
cached_trades(cached_maps, args) ==
  LET trades == trades_from_maps(cached_maps)
      retained == SelectSeq(trades, LAMBDA t : in_range(trade_date_str(t), args)) IN
  ItemsOf(sort_desc([j \in 1..Len(retained) |->
                       [key |-> trade_date_str(retained[j]), item |-> retained[j]]]))

\* get_insider_trade is called: an end date that does not parse returns at
\* once, otherwise the lock is taken for the lookup
API_get_insider_trade(p, ticker, args) ==
  /\ api_pc[p] = "idle"
  /\ api_calls < MaxApiCalls
  /\ api_calls' = api_calls + 1
  /\ api_ticker' = [api_ticker EXCEPT ![p] = ticker]
  /\ IF NaiveDate_parse(args.end_date) = None
     THEN /\ api_ret' = [api_ret EXCEPT ![p] = Ok(<<>>)]
          /\ UNCHANGED <<cache_lock, api_pc, api_args>>
     ELSE /\ Mutex_lock(p)
          /\ cache_lock' = p
          /\ api_pc' = [api_pc EXCEPT ![p] = "it_lookup"]
          /\ api_args' = [api_args EXCEPT ![p] = args]
          /\ UNCHANGED api_ret
  /\ UNCHANGED <<api_got, api_prices, api_existing, serial>>
  /\ UNCHANGED <<gvars, ivars, svars, cvars>>

TradesLookup(p) ==
  /\ api_pc[p] = "it_lookup"
  /\ LET cached_maps == get_insider_trades(cache, api_ticker[p]).value
         trades == cached_trades(cached_maps, api_args[p]) IN
     /\ api_got' = [api_got EXCEPT ![p] = cached_maps]
     /\ IF cached_maps # <<>> /\ trades # <<>>
        THEN /\ api_ret' = [api_ret EXCEPT ![p] = Ok(trades)]
             /\ api_pc' = [api_pc EXCEPT ![p] = "idle"]
             /\ api_args' = [api_args EXCEPT ![p] = NoArgs]
        ELSE /\ api_pc' = [api_pc EXCEPT ![p] = "it_fetch"]
             /\ UNCHANGED <<api_ret, api_args>>
  /\ cache_lock' = 0
  /\ UNCHANGED <<api_ticker, api_prices, api_existing, api_calls, serial>>
  /\ UNCHANGED <<gvars, ivars, svars, cvars>>

\* whether the loop of get_insider_trade asks for a further page after a
\* batch that is not empty
more_trades(batch, args) ==
  LET start == target_start_date_opt(args.start_date) IN
  IF args.start_date = None \/ Len(batch) < args.limit THEN FALSE
  ELSE LET oldest == min_by_key([j \in 1..Len(batch) |->
                                   [key |-> filing_date_str(batch[j]), item |-> batch[j]]]).item IN
       IF oldest.filing_date = None THEN FALSE
       ELSE LET current_page_end == split_T(oldest.filing_date[1])
                page_end_date == NaiveDate_parse(current_page_end) IN
            IF start # None /\ page_end_date # None THEN ~(page_end_date[1] <= start[1])
            ELSE IF start = None THEN current_page_end # <<>>
            ELSE TRUE

\* a get_insider_trade whose last page is cached with set_insider_trades
TradesFetch_cached(p) ==
  /\ api_pc[p] = "it_fetch"
  /\ Mutex_lock(p)
  /\ \E response \in PageResponses(ApiTrades, 1) :
       /\ response.kind = "ok" /\ response.items # <<>>
       /\ cache' = set_insider_trades(cache, api_ticker[p], maps_from_trades(response.items)).cache
       /\ api_ret' = [api_ret EXCEPT ![p] = Ok(api_prices[p] \o response.items)]
  /\ api_pc' = [api_pc EXCEPT ![p] = "idle"]
  /\ api_prices' = [api_prices EXCEPT ![p] = <<>>]
  /\ api_args' = [api_args EXCEPT ![p] = NoArgs]
  /\ UNCHANGED <<cache_lock, api_ticker, api_got, api_existing, api_calls, serial>>
  /\ UNCHANGED <<last_call, cache_ret, gvars, ivars, svars>>

\* one turn of the loop of get_insider_trade: the request for a page, and
\* the return once the loop is left
TradesFetch(p) ==
  /\ api_pc[p] = "it_fetch"
  /\ \E response \in PageResponses(ApiTrades, MaxFetched - Len(api_prices[p])) :
       /\ Len(response.items) <= api_args[p].limit
       /\ IF response.kind \in {"send_error", "json_error"}
          THEN /\ api_ret' = [api_ret EXCEPT ![p] = Err(<<"reqwest: ", response.kind>>)]
               /\ api_pc' = [api_pc EXCEPT ![p] = "idle"]
               /\ api_prices' = [api_prices EXCEPT ![p] = <<>>]
               /\ api_args' = [api_args EXCEPT ![p] = NoArgs]
          ELSE LET current_batch_trades == response.items
                   all_fetched_trades == api_prices[p] \o current_batch_trades IN
               IF current_batch_trades # <<>> /\ more_trades(current_batch_trades, api_args[p])
               THEN /\ api_prices' = [api_prices EXCEPT ![p] = all_fetched_trades]
                    /\ UNCHANGED <<api_ret, api_pc, api_args>>
               ELSE /\ api_ret' = [api_ret EXCEPT ![p] = Ok(all_fetched_trades)]
                    /\ api_pc' = [api_pc EXCEPT ![p] = "idle"]
                    /\ api_prices' = [api_prices EXCEPT ![p] = <<>>]
                    /\ api_args' = [api_args EXCEPT ![p] = NoArgs]
  /\ UNCHANGED <<cache_lock, api_ticker, api_got, api_existing, api_calls, serial>>
  /\ UNCHANGED <<gvars, ivars, svars, cvars>>

\* ---- CompanyNews

NewsStrings == {"ticker", "title", "author", "source", "date", "url"}

NewsOf(date) ==
  [ticker |-> <<"A">>, title |-> <<"n">>, author |-> <<"a">>, source |-> <<"s">>,
   date |-> date, url |-> <<"u">>, sentiment |-> None]

\* convert_model_to_cache_item: to_value(news), then the object as a map
News_to_map(n) ==
  [f \in NewsStrings \cup {"sentiment"} |->
     IF f = "sentiment" THEN (IF n.sentiment = None THEN Null ELSE Str(n.sentiment[1]))
     ELSE Str(n[f])]

\* convert_cached_item_to_model::<CompanyNews>
Map_to_news(h) ==
  IF /\ NewsStrings \subseteq DOMAIN h
     /\ \A f \in NewsStrings : h[f].t = "String"
     /\ "sentiment" \in DOMAIN h => h["sentiment"].t \in {"String", "Null"}
  THEN Some([f \in NewsStrings \cup {"sentiment"} |->
               IF f # "sentiment" THEN h[f].v
               ELSE IF f \in DOMAIN h /\ h[f].t = "String" THEN Some(h[f].v) ELSE None])
  ELSE None

RECURSIVE news_from_maps(_)
news_from_maps(data) ==
  IF data = <<>> THEN <<>>
  ELSE LET x == Map_to_news(Head(data)) IN
       (IF x = None THEN <<>> ELSE <<x[1]>>) \o news_from_maps(Tail(data))

maps_from_news(news) == [j \in 1..Len(news) |-> News_to_map(news[j])]

ApiNews == { NewsOf(<<"1">>), NewsOf(<<"2", "T", "0">>) }

\* the cached news in the range asked for, the latest first
cached_news(cached_maps, args) ==
  LET news_items == news_from_maps(cached_maps)
      retained == SelectSeq(news_items, LAMBDA n : in_range(n.date, args)) IN
  ItemsOf(sort_desc([j \in 1..Len(retained) |->
                       [key |-> retained[j].date, item |-> retained[j]]]))

\* get_company_news is called: an end date that does not parse returns at
\* once, otherwise the lock is taken for the lookup
API_get_company_news(p, ticker, args) ==
  /\ api_pc[p] = "idle"
  /\ api_calls < MaxApiCalls
  /\ api_calls' = api_calls + 1
  /\ api_ticker' = [api_ticker EXCEPT ![p] = ticker]
  /\ IF NaiveDate_parse(args.end_date) = None
     THEN /\ api_ret' = [api_ret EXCEPT ![p] = Ok(<<>>)]
          /\ UNCHANGED <<cache_lock, api_pc, api_args>>
     ELSE /\ Mutex_lock(p)
          /\ cache_lock' = p
          /\ api_pc' = [api_pc EXCEPT ![p] = "cn_lookup"]
          /\ api_args' = [api_args EXCEPT ![p] = args]
          /\ UNCHANGED api_ret
  /\ UNCHANGED <<api_got, api_prices, api_existing, serial>>
  /\ UNCHANGED <<gvars, ivars, svars, cvars>>

NewsLookup(p) ==
  /\ api_pc[p] = "cn_lookup"
  /\ LET cached_maps == get_company_news(cache, api_ticker[p]).value
         news_items == cached_news(cached_maps, api_args[p]) IN
     /\ api_got' = [api_got EXCEPT ![p] = cached_maps]
     /\ IF cached_maps # <<>> /\ news_items # <<>>
        THEN /\ api_ret' = [api_ret EXCEPT ![p] = Ok(news_items)]
             /\ api_pc' = [api_pc EXCEPT ![p] = "idle"]
             /\ api_args' = [api_args EXCEPT ![p] = NoArgs]
        ELSE /\ api_pc' = [api_pc EXCEPT ![p] = "cn_fetch"]
             /\ UNCHANGED <<api_ret, api_args>>
  /\ cache_lock' = 0
  /\ UNCHANGED <<api_ticker, api_prices, api_existing, api_calls, serial>>
  /\ UNCHANGED <<gvars, ivars, svars, cvars>>

\* whether the loop of get_company_news asks for a further page
more_news(batch, args) ==
  LET start == target_start_date_opt(args.start_date) IN
  IF args.start_date = None \/ Len(batch) < args.limit THEN FALSE
  ELSE IF batch = <<>> THEN FALSE
  ELSE LET oldest == min_by_key([j \in 1..Len(batch) |->
                                   [key |-> batch[j].date, item |-> batch[j]]]).item
           current_page_end == split_T(oldest.date)
           page_end_date == NaiveDate_parse(current_page_end) IN
       IF start # None /\ page_end_date # None THEN ~(page_end_date[1] <= start[1])
       ELSE IF start = None THEN current_page_end # <<>>
       ELSE TRUE

\* one turn of the loop of get_company_news: the request for a page; once
\* the loop is left, the return of nothing fetched or the way to the write
NewsFetch(p) ==
  /\ api_pc[p] = "cn_fetch"
  /\ \E response \in PageResponses(ApiNews, MaxFetched - Len(api_prices[p])) :
       /\ Len(response.items) <= api_args[p].limit
       /\ IF response.kind \in {"send_error", "json_error"}
          THEN /\ api_ret' = [api_ret EXCEPT ![p] = Err(<<"reqwest: ", response.kind>>)]
               /\ api_pc' = [api_pc EXCEPT ![p] = "idle"]
               /\ api_prices' = [api_prices EXCEPT ![p] = <<>>]
               /\ api_args' = [api_args EXCEPT ![p] = NoArgs]
          ELSE LET current_batch_news == response.items
                   all_fetched_news == api_prices[p] \o current_batch_news IN
               IF more_news(current_batch_news, api_args[p])
               THEN /\ api_prices' = [api_prices EXCEPT ![p] = all_fetched_news]
                    /\ UNCHANGED <<api_ret, api_pc, api_args>>
               ELSE IF all_fetched_news = <<>> \/ maps_from_news(all_fetched_news) = <<>>
               THEN /\ api_ret' = [api_ret EXCEPT ![p] = Ok(all_fetched_news)]
                    /\ api_pc' = [api_pc EXCEPT ![p] = "idle"]
                    /\ api_prices' = [api_prices EXCEPT ![p] = <<>>]
                    /\ api_args' = [api_args EXCEPT ![p] = NoArgs]
               ELSE /\ api_prices' = [api_prices EXCEPT ![p] = all_fetched_news]
                    /\ api_pc' = [api_pc EXCEPT ![p] = "cn_lock"]
                    /\ UNCHANGED <<api_ret, api_args>>
  /\ UNCHANGED <<cache_lock, api_ticker, api_got, api_existing, api_calls, serial>>
  /\ UNCHANGED <<gvars, ivars, svars, cvars>>

NewsLockAndRead(p) ==
  /\ api_pc[p] = "cn_lock"
  /\ Mutex_lock(p)
  /\ cache_lock' = p
  /\ api_existing' = [api_existing EXCEPT
                        ![p] = Cache_get(cache, "company_news_cache", api_ticker[p])]
  /\ api_pc' = [api_pc EXCEPT ![p] = "cn_merge"]
  /\ UNCHANGED <<api_ticker, api_got, api_prices, api_ret, api_calls, serial, api_args>>
  /\ UNCHANGED <<gvars, ivars, svars, cvars>>

NewsMergeAndInsert(p) ==
  /\ api_pc[p] = "cn_merge"
  /\ cache' = Cache_set_from(cache, api_existing[p], "company_news_cache", api_ticker[p],
                             maps_from_news(api_prices[p]), "date").cache
  /\ cache_lock' = 0
  /\ api_ret' = [api_ret EXCEPT ![p] = Ok(api_prices[p])]
  /\ api_pc' = [api_pc EXCEPT ![p] = "idle"]
  /\ api_prices' = [api_prices EXCEPT ![p] = <<>>]
  /\ api_existing' = [api_existing EXCEPT ![p] = <<>>]
  /\ api_args' = [api_args EXCEPT ![p] = NoArgs]
  /\ UNCHANGED <<api_ticker, api_got, api_calls, serial>>
  /\ UNCHANGED <<last_call, cache_ret, gvars, ivars, svars>>

NextFetch ==
  \/ \E p \in FetchTasks, ticker \in FetchTickers : get_price(p, ticker)
  \/ \E p \in FetchTasks : CacheLookup(p)
  \/ \E p \in FetchTasks : Fetch(p)
  \/ \E p \in FetchTasks : LockAndRead(p)
  \/ \E p \in FetchTasks : MergeAndInsert(p)
  \/ \E p \in FetchTasks, ticker \in FetchTickers : API_get_financial_metrics(p, ticker)
  \/ \E p \in FetchTasks : MetricsLookup(p)
  \/ \E p \in FetchTasks : MetricsFetch(p)
  \/ \E p \in FetchTasks : MetricsLockAndRead(p)
  \/ \E p \in FetchTasks : MetricsMergeAndInsert(p)
  \/ \E p \in FetchTasks, ticker \in FetchTickers, limit \in Limits :
       API_search_line_items(p, ticker, limit)
  \/ \E p \in FetchTasks : LineItemsFetch(p)
  \/ \E p \in FetchTasks, ticker \in FetchTickers, args \in RequestArgs :
       API_get_insider_trade(p, ticker, args)
  \/ \E p \in FetchTasks : TradesLookup(p)
  \/ \E p \in FetchTasks : TradesFetch(p)
  \/ \E p \in FetchTasks, ticker \in FetchTickers, args \in RequestArgs :
       API_get_company_news(p, ticker, args)
  \/ \E p \in FetchTasks : NewsLookup(p)
  \/ \E p \in FetchTasks : NewsFetch(p)
  \/ \E p \in FetchTasks : NewsLockAndRead(p)
  \/ \E p \in FetchTasks : NewsMergeAndInsert(p)

-----------------------------------------------------------------------------
(* StateGraph builder (graph.rs) *)

RECURSIVE SumLen(_, _)
SumLen(f, S) ==
  IF S = {} THEN 0
  ELSE LET x == CHOOSE y \in S : TRUE IN Len(f[x]) + SumLen(f, S \ {x})

EdgeCount == SumLen(edges, DOMAIN edges)

\* add_node that keeps the capability a name already has
add_node_keep_first(name, func) ==
  /\ ~compiled
  /\ nodes' = IF name \in DOMAIN nodes THEN nodes
              ELSE [n \in (DOMAIN nodes) \cup {name} |-> IF n = name THEN func ELSE nodes[n]]
  /\ edges' = IF name \in DOMAIN edges THEN edges
              ELSE [n \in (DOMAIN edges) \cup {name} |-> IF n = name THEN <<>> ELSE edges[n]]
  /\ registered' = HashMap_insert(registered, name, func)
  /\ UNCHANGED <<entry_point, compiled, ivars>>
  /\ UNCHANGED <<svars, cvars, avars>>

add_node(name, func) ==
  /\ ~compiled
  /\ nodes' = [n \in (DOMAIN nodes) \cup {name} |-> IF n = name THEN func ELSE nodes[n]]
  /\ edges' = IF name \in DOMAIN edges THEN edges
              ELSE [n \in (DOMAIN edges) \cup {name} |-> IF n = name THEN <<>> ELSE edges[n]]
  /\ registered' = HashMap_insert(registered, name, func)
  /\ UNCHANGED <<entry_point, compiled, ivars>>
  /\ UNCHANGED <<svars, cvars, avars>>

add_edge(from, to) ==
  /\ ~compiled
  /\ EdgeCount < MaxEdges
  /\ edges' = [n \in (DOMAIN edges) \cup {from} |->
                 IF n = from
                 THEN Append(IF from \in DOMAIN edges THEN edges[from] ELSE <<>>, to)
                 ELSE edges[n]]
  /\ UNCHANGED <<nodes, entry_point, compiled, registered, ivars>>
  /\ UNCHANGED <<svars, cvars, avars>>

set_entry_point(node) ==
  /\ ~compiled
  /\ entry_point' = Some(node)
  /\ UNCHANGED <<nodes, edges, compiled, registered, ivars>>
  /\ UNCHANGED <<svars, cvars, avars>>

compile ==
  /\ ~compiled
  /\ compiled' = TRUE
  /\ UNCHANGED <<nodes, edges, entry_point, registered, ivars>>
  /\ UNCHANGED <<svars, cvars, avars>>

-----------------------------------------------------------------------------
(* AgentService::create_workflow (agent_service.rs): the hedge-fund graph, *)
(* built on a StateGraph value g = [nodes, edges, entry_point]             *)

StateGraph_new == [nodes |-> EmptyMap, edges |-> EmptyMap, entry_point |-> None]

\* an add_node that leaves the edges alone
StateGraph_add_node_only(g, name, func) ==
  [g EXCEPT !.nodes = HashMap_insert(g.nodes, name, func)]

StateGraph_add_node(g, name, func) ==
  [g EXCEPT !.nodes = HashMap_insert(g.nodes, name, func),
            !.edges = IF name \in DOMAIN g.edges THEN g.edges
                      ELSE HashMap_insert(g.edges, name, <<>>)]

StateGraph_add_edge(g, from, to) ==
  [g EXCEPT !.edges =
     HashMap_insert(g.edges, from,
                    Append(IF from \in DOMAIN g.edges THEN g.edges[from] ELSE <<>>, to))]

StateGraph_set_entry_point(g, node) == [g EXCEPT !.entry_point = Some(node)]

\* the agents of the workflow; what an agent does (requests, a model call)
\* is outside the graph engine, so each agent is given one of the
\* capabilities above: "analyst" when its run succeeds, "fail" when it fails
AgentIds == {"warren_buffett", "risk_manager", "portfolio_manager"}

AgentFunctions == [AgentIds -> {"analyst", "fail"}]

\* get_analyst_nodes: key -> (node name, capability); the configuration has
\* the one analyst warren_buffett
get_analyst_nodes(funcs) ==
  ("warren_buffett" :> <<"warren_buffett_agent", funcs["warren_buffett"]>>)

\* the keys a caller may select: the analyst of the configuration and a key
\* the configuration does not have
AnalystKeys == {"warren_buffett", "ben_graham"}

MaxSelected == 2

Selections ==
  {None} \cup {Some(sel) : sel \in UNION {[1..n -> AnalystKeys] : n \in 0..MaxSelected}}

\* the first loop of create_workflow: a node and an edge from start_node for
\* each selected key the configuration has
RECURSIVE add_analysts(_, _, _)
add_analysts(g, selected, analyst_nodes) ==
  IF selected = <<>> THEN g
  ELSE LET analyst_key == Head(selected) IN
       add_analysts(
         IF analyst_key \in DOMAIN analyst_nodes
         THEN LET node_name == analyst_nodes[analyst_key][1] IN
              StateGraph_add_edge(
                StateGraph_add_node(g, node_name, analyst_nodes[analyst_key][2]),
                "start_node", node_name)
         ELSE g,
         Tail(selected), analyst_nodes)

\* the second loop: an edge from each selected analyst to the risk manager
RECURSIVE add_analyst_edges(_, _, _)
add_analyst_edges(g, selected, analyst_nodes) ==
  IF selected = <<>> THEN g
  ELSE LET analyst_key == Head(selected) IN
       add_analyst_edges(
         IF analyst_key \in DOMAIN analyst_nodes
         THEN StateGraph_add_edge(g, analyst_nodes[analyst_key][1], "risk_management_agent")
         ELSE g,
         Tail(selected), analyst_nodes)

create_workflow(selected_analyst, funcs) ==
  LET analyst_nodes == get_analyst_nodes(funcs)
      selected_analysts ==
        IF selected_analyst # None /\ selected_analyst[1] # <<>> THEN selected_analyst[1]
        ELSE <<"warren_buffett">>
      g1 == StateGraph_add_node(StateGraph_new, "start_node", "start")
      g2 == add_analysts(g1, selected_analysts, analyst_nodes)
      g3 == StateGraph_add_node(g2, "risk_management_agent", funcs["risk_manager"])
      g4 == StateGraph_add_node(g3, "portfolio_manager", funcs["portfolio_manager"])
      g5 == add_analyst_edges(g4, selected_analysts, analyst_nodes)
      g6 == StateGraph_add_edge(g5, "risk_management_agent", "portfolio_manager")
      g7 == StateGraph_add_edge(g6, "portfolio_manager", end_node)
  IN StateGraph_set_entry_point(g7, "start_node")

\* create_workflow(selected_analyst).compile(), as AgentService::new and
\* run_hedge_fund make the graph they invoke
create_workflow_compile(selected_analyst, funcs) ==
  /\ ~compiled
  /\ nodes = EmptyMap /\ edges = EmptyMap /\ entry_point = None
  /\ LET workflow == create_workflow(selected_analyst, funcs) IN
     /\ nodes' = workflow.nodes
     /\ edges' = workflow.edges
     /\ entry_point' = workflow.entry_point
     /\ registered' = workflow.nodes
  /\ compiled' = TRUE
  /\ UNCHANGED <<ivars, svars, cvars, avars>>

\* agent.invoke(initial_state, config).await? in run_hedge_fund: an error of
\* invoke is what run_hedge_fund returns, at once
run_hedge_fund_try(invoked) == IF invoked.kind = "Err" THEN Some(invoked) ELSE None

-----------------------------------------------------------------------------
(* CompiledGraph::invoke (graph.rs).  The only suspension point of an      *)
(* invocation is the await of the node call, so one loop iteration is two  *)
(* steps: loop head up to the call, and the return of the call up to the   *)
(* choice of the next node.                                                *)

\* if visited.contains(&current_node)
CycleDetected_never(i) == FALSE

CycleDetected_shared(i) == \E j \in Invocations : current_node[i] \in visited[j]

CycleDetected(i) == current_node[i] \in visited[i]

\* current_node = next_nodes[0].clone()
NextNode_last(next_nodes) == next_nodes[Len(next_nodes)]

NextNode(next_nodes) == next_nodes[1]

\* the ? applied to the awaited result of node_func.call
NodeFailed_skip(update) == FALSE

NodeFailed(update) == update.kind = "Err"

\* the update handed to update_from_partial
Unwrap(update) == IF update.kind = "Ok" THEN update.value ELSE PartialAgentStateUpdate_new

Finish(i, r) ==
  /\ pc' = [pc EXCEPT ![i] = "done"]
  /\ result' = [result EXCEPT ![i] = r]

invoke(i, s0) ==
  /\ compiled
  /\ pc[i] = "idle"
  /\ initial_state' = [initial_state EXCEPT ![i] = s0]
  /\ current_state' = [current_state EXCEPT ![i] = s0]
  /\ visited' = [visited EXCEPT ![i] = {}]
  /\ calls' = [calls EXCEPT ![i] = <<>>]
  /\ updates' = [updates EXCEPT ![i] = <<>>]
  /\ IF entry_point = None
     THEN \* expect("Graph must have an entry point") panics
          /\ pc' = [pc EXCEPT ![i] = "panicked"]
          /\ UNCHANGED <<current_node, result>>
     ELSE /\ pc' = [pc EXCEPT ![i] = "loop"]
          /\ current_node' = [current_node EXCEPT ![i] = entry_point[1]]
          /\ UNCHANGED result
  /\ UNCHANGED gvars
  /\ UNCHANGED <<svars, cvars, avars>>

\* LoopHead with a name that has no capability taken for the end of the walk
LoopHead_unregistered_ends(i) ==
  /\ pc[i] = "loop"
  /\ IF current_node[i] = end_node
     THEN /\ Finish(i, Ok(current_state[i]))
          /\ UNCHANGED <<visited, calls>>
     ELSE IF CycleDetected(i)
     THEN /\ Finish(i, Err(<<"Cycle detected in graph execution">>))
          /\ UNCHANGED <<visited, calls>>
     ELSE /\ visited' = [visited EXCEPT ![i] = @ \cup {current_node[i]}]
          /\ IF current_node[i] \notin DOMAIN nodes
             THEN /\ Finish(i, Ok(current_state[i]))
                  /\ UNCHANGED calls
             ELSE /\ pc' = [pc EXCEPT ![i] = "awaiting"]
                  /\ calls' = [calls EXCEPT ![i] = Append(@, current_node[i])]
                  /\ UNCHANGED result
  /\ UNCHANGED <<gvars, current_state, current_node, initial_state, updates>>
  /\ UNCHANGED <<svars, cvars, avars>>

\* LoopHead that stops at END only when no capability is registered as END
LoopHead_end_callable(i) ==
  /\ pc[i] = "loop"
  /\ IF current_node[i] = end_node /\ end_node \notin DOMAIN nodes
     THEN /\ Finish(i, Ok(current_state[i]))
          /\ UNCHANGED <<visited, calls>>
     ELSE IF CycleDetected(i)
     THEN /\ Finish(i, Err(<<"Cycle detected in graph execution">>))
          /\ UNCHANGED <<visited, calls>>
     ELSE /\ visited' = [visited EXCEPT ![i] = @ \cup {current_node[i]}]
          /\ IF current_node[i] \notin DOMAIN nodes
             THEN /\ Finish(i, Err(<<"Node not found: ", current_node[i]>>))
                  /\ UNCHANGED calls
             ELSE /\ pc' = [pc EXCEPT ![i] = "awaiting"]
                  /\ calls' = [calls EXCEPT ![i] = Append(@, current_node[i])]
                  /\ UNCHANGED result
  /\ UNCHANGED <<gvars, current_state, current_node, initial_state, updates>>
  /\ UNCHANGED <<svars, cvars, avars>>

LoopHead(i) ==
  /\ pc[i] = "loop"
  /\ IF current_node[i] = end_node
     THEN /\ Finish(i, Ok(current_state[i]))
          /\ UNCHANGED <<visited, calls>>
     ELSE IF CycleDetected(i)
     THEN /\ Finish(i, Err(<<"Cycle detected in graph execution">>))
          /\ UNCHANGED <<visited, calls>>
     ELSE /\ visited' = [visited EXCEPT ![i] = @ \cup {current_node[i]}]
          /\ IF current_node[i] \notin DOMAIN nodes
             THEN /\ Finish(i, Err(<<"Node not found: ", current_node[i]>>))
                  /\ UNCHANGED calls
             ELSE /\ pc' = [pc EXCEPT ![i] = "awaiting"]
                  /\ calls' = [calls EXCEPT ![i] = Append(@, current_node[i])]
                  /\ UNCHANGED result
  /\ UNCHANGED <<gvars, current_state, current_node, initial_state, updates>>
  /\ UNCHANGED <<svars, cvars, avars>>

\* NodeReturn with a node without successors taken for the last one
NodeReturn_end(i) ==
  /\ pc[i] = "awaiting"
  /\ LET update == NodeFunction_call(nodes[current_node[i]], current_state[i])
     IN IF NodeFailed(update)
        THEN /\ Finish(i, update)
             /\ UNCHANGED <<current_state, current_node, updates>>
        ELSE LET merged == update_from_partial(current_state[i], Unwrap(update))
             IN /\ current_state' = [current_state EXCEPT ![i] = merged]
                /\ updates' = [updates EXCEPT ![i] = Append(@, Unwrap(update))]
                /\ current_node' =
                     [current_node EXCEPT ![i] =
                        IF current_node[i] \notin DOMAIN edges \/ edges[current_node[i]] = <<>>
                        THEN end_node ELSE NextNode(edges[current_node[i]])]
                /\ pc' = [pc EXCEPT ![i] = "loop"]
                /\ UNCHANGED result
  /\ UNCHANGED <<gvars, visited, initial_state, calls>>
  /\ UNCHANGED <<svars, cvars, avars>>

\* NodeReturn that merges the update into the state invoke was given
NodeReturn_from_initial(i) ==
  /\ pc[i] = "awaiting"
  /\ LET update == NodeFunction_call(nodes[current_node[i]], current_state[i])
     IN IF NodeFailed(update)
        THEN /\ Finish(i, update)
             /\ UNCHANGED <<current_state, current_node, updates>>
        ELSE LET merged == update_from_partial(initial_state[i], Unwrap(update))
             IN /\ current_state' = [current_state EXCEPT ![i] = merged]
                /\ updates' = [updates EXCEPT ![i] = Append(@, Unwrap(update))]
                /\ IF current_node[i] \notin DOMAIN edges
                   THEN /\ Finish(i, Err(<<"No edges defined for node: ", current_node[i]>>))
                        /\ UNCHANGED current_node
                   ELSE IF edges[current_node[i]] = <<>>
                   THEN /\ Finish(i, Err(<<"Dead end at node: ", current_node[i]>>))
                        /\ UNCHANGED current_node
                   ELSE /\ current_node' = [current_node EXCEPT ![i] = NextNode(edges[current_node[i]])]
                        /\ pc' = [pc EXCEPT ![i] = "loop"]
                        /\ UNCHANGED result
  /\ UNCHANGED <<gvars, visited, initial_state, calls>>
  /\ UNCHANGED <<svars, cvars, avars>>

NodeReturn(i) ==
  /\ pc[i] = "awaiting"
  /\ LET update == NodeFunction_call(nodes[current_node[i]], current_state[i])
     IN IF NodeFailed(update)
        THEN /\ Finish(i, update)
             /\ UNCHANGED <<current_state, current_node, updates>>
        ELSE LET merged == update_from_partial(current_state[i], Unwrap(update))
             IN /\ current_state' = [current_state EXCEPT ![i] = merged]
                /\ updates' = [updates EXCEPT ![i] = Append(@, Unwrap(update))]
                /\ IF current_node[i] \notin DOMAIN edges
                   THEN /\ Finish(i, Err(<<"No edges defined for node: ", current_node[i]>>))
                        /\ UNCHANGED current_node
                   ELSE IF edges[current_node[i]] = <<>>
                   THEN /\ Finish(i, Err(<<"Dead end at node: ", current_node[i]>>))
                        /\ UNCHANGED current_node
                   ELSE /\ current_node' = [current_node EXCEPT ![i] = NextNode(edges[current_node[i]])]
                        /\ pc' = [pc EXCEPT ![i] = "loop"]
                        /\ UNCHANGED result
  /\ UNCHANGED <<gvars, visited, initial_state, calls>>
  /\ UNCHANGED <<svars, cvars, avars>>

-----------------------------------------------------------------------------
(* Specification of the builder followed by one invocation *)

InitGraph ==
  /\ nodes = EmptyMap
  /\ edges = EmptyMap
  /\ entry_point = None
  /\ compiled = FALSE
  /\ registered = EmptyMap

InitInvocations ==
  /\ pc = [i \in Invocations |-> "idle"]
  /\ current_state = [i \in Invocations |-> AgentState_new]
  /\ current_node = [i \in Invocations |-> ""]
  /\ visited = [i \in Invocations |-> {}]
  /\ result = [i \in Invocations |-> Err(<<"none">>)]
  /\ initial_state = [i \in Invocations |-> AgentState_new]
  /\ calls = [i \in Invocations |-> <<>>]
  /\ updates = [i \in Invocations |-> <<>>]

InitState ==
  /\ self0 = AgentState_new
  /\ self = AgentState_new
  /\ u1 = PartialAgentStateUpdate_new
  /\ u2 = PartialAgentStateUpdate_new
  /\ applied = 0

Init == InitGraph /\ InitInvocations /\ InitState /\ InitCache /\ InitApi

Next ==
  \/ \E name \in Names, func \in CapIds : add_node(name, func)
  \/ \E from \in NodeNames, to \in Names : add_edge(from, to)
  \/ \E node \in Names : set_entry_point(node)
  \/ compile
  \/ \E selected_analyst \in Selections, funcs \in AgentFunctions :
       create_workflow_compile(selected_analyst, funcs)
  \/ \E s0 \in InitialStates : invoke(1, s0)
  \/ LoopHead(1)
  \/ NodeReturn(1)

Spec == Init /\ [][Next]_vars

\* Specification with the scheduling the runtime guarantees to a task that is
\* polled to completion: an enabled step of the invocation is eventually taken
\* (every node capability call returns).
SpecLive == Spec /\ WF_vars(LoopHead(1)) /\ WF_vars(NodeReturn(1))

-----------------------------------------------------------------------------
(* Specification of AgentState::update_from_partial applied to two updates *)
(* in sequence, on states and updates drawn from small sets.               *)

DataKeys == {"k", "j"}
MetaKeys == {"m"}
Values == {1, 2}

MapsOver(K) == UNION {[D -> Values] : D \in SUBSET K}

StatesUnderTest ==
  [messages : {<<>>, <<"user">>}, data : MapsOver(DataKeys), metadata : MapsOver(MetaKeys)]

UpdatesUnderTest ==
  [messages : {None, Some(<<"x">>)},
   data : {None} \cup {Some(m) : m \in MapsOver(DataKeys)},
   metadata : {None} \cup {Some(m) : m \in MapsOver(MetaKeys)}]

InitStateUnderTest ==
  /\ self0 \in StatesUnderTest
  /\ self = self0
  /\ u1 \in UpdatesUnderTest
  /\ u2 \in UpdatesUnderTest
  /\ applied = 0

ApplyFirst ==
  /\ applied = 0
  /\ self' = update_from_partial(self, u1)
  /\ applied' = 1
  /\ UNCHANGED <<self0, u1, u2, gvars, ivars, cvars, avars>>

ApplySecond ==
  /\ applied = 1
  /\ self' = update_from_partial(self, u2)
  /\ applied' = 2
  /\ UNCHANGED <<self0, u1, u2, gvars, ivars, cvars, avars>>

InitUnderTest == InitGraph /\ InitInvocations /\ InitStateUnderTest /\ InitCache /\ InitApi

NextState == ApplyFirst \/ ApplySecond

SpecState == InitUnderTest /\ [][NextState]_vars

-----------------------------------------------------------------------------
(* Specification of two invocations running on one compiled graph, taking  *)
(* turns at the points where a node capability is awaited.                 *)

SuccessorLists == {<<>>} \cup {<<n>> : n \in Names}

\* the graphs the builder produces from at most one add_edge per node
CompiledGraphs ==
  UNION {[nodes : [D -> CapIds], edges : [D -> SuccessorLists],
          entry_point : {None} \cup {Some(n) : n \in NodeNames}] : D \in SUBSET NodeNames}

InitCompiled ==
  /\ \E g \in CompiledGraphs :
       /\ nodes = g.nodes
       /\ edges = g.edges
       /\ entry_point = g.entry_point
       /\ registered = g.nodes
  /\ compiled = TRUE

NextConc ==
  \/ \E i \in Invocations, s0 \in InitialStates : invoke(i, s0)
  \/ \E i \in Invocations : LoopHead(i)
  \/ \E i \in Invocations : NodeReturn(i)

InitConc == InitCompiled /\ InitInvocations /\ InitState /\ InitCache /\ InitApi

SpecConc == InitConc /\ [][NextConc]_vars

-----------------------------------------------------------------------------
(* Specification of a compiled graph invoked, and invoked again once the   *)
(* first invocation has returned.                                          *)

NextAgain ==
  \/ \E s0 \in InitialStates : invoke(1, s0)
  \/ LoopHead(1)
  \/ NodeReturn(1)
  \/ \E s0 \in InitialStates : pc[1] = "done" /\ invoke(2, s0)
  \/ LoopHead(2)
  \/ NodeReturn(2)

SpecAgain == InitConc /\ [][NextAgain]_vars

-----------------------------------------------------------------------------
(* Specification of a builder in which the first add_node of a name gives  *)
(* the capability "fail" and every later add_node of the name another one, *)
(* followed by one invocation.                                             *)

NextRegister ==
  \/ \E name \in Names : name \notin DOMAIN nodes /\ add_node(name, "fail")
  \/ \E name \in Names, func \in CapIds \ {"fail"} :
       name \in DOMAIN nodes /\ add_node(name, func)
  \/ \E from \in NodeNames, to \in Names : add_edge(from, to)
  \/ \E node \in Names : set_entry_point(node)
  \/ compile
  \/ \E s0 \in InitialStates : invoke(1, s0)
  \/ LoopHead(1)
  \/ NodeReturn(1)

SpecRegister == Init /\ [][NextRegister]_vars

SpecCache == Init /\ [][NextCache]_vars

SpecApi == Init /\ [][NextApi]_vars

SpecFetch == Init /\ [][NextFetch]_vars

SpecSave == Init /\ [][NextSave]_vars

-----------------------------------------------------------------------------
(* Helpers of the properties *)

Range(s) == {s[j] : j \in 1..Len(s)}

IsPrefix(s, t) == Len(s) <= Len(t) /\ SubSeq(t, 1, Len(s)) = s

NoDuplicates(s) == \A j, l \in 1..Len(s) : s[j] = s[l] => j = l

\* the walk along first successors from n; simple iff it reaches END through
\* registered, pairwise distinct nodes
RECURSIVE WalkPath(_, _)
WalkPath(n, acc) ==
  IF n = end_node THEN [simple |-> TRUE, path |-> acc]
  ELSE IF \/ n \in Range(acc)
          \/ n \notin DOMAIN nodes
          \/ n \notin DOMAIN edges
          \/ edges[n] = <<>>
       THEN [simple |-> FALSE, path |-> acc]
       ELSE WalkPath(edges[n][1], Append(acc, n))

\* the state obtained by feeding s through the capabilities of path, in order
RECURSIVE RunPath(_, _)
RunPath(path, s) ==
  IF path = <<>> THEN s
  ELSE RunPath(Tail(path),
               update_from_partial(s, NodeFunction_call(nodes[Head(path)], s).value))

RECURSIVE Flatten(_)
Flatten(ss) == IF ss = <<>> THEN <<>> ELSE Head(ss) \o Flatten(Tail(ss))

IsErr(r, m) == r.kind = "Err" /\ r.value = m

IsOk(r, v) == r.kind = "Ok" /\ r.value = v

Running(i) == pc[i] \in {"loop", "awaiting"}

-----------------------------------------------------------------------------
(* Properties of CompiledGraph::invoke *)

\* C1: on a compiled graph whose first-successor edges form a simple path
\* entry = n1 -> ... -> nk -> END of registered, distinct nodes whose
\* capabilities all succeed, invoke calls n1..nk once each in that order and
\* returns Ok with the final state.
C1_SimplePathInOrder ==
  (compiled /\ entry_point # None) =>
    LET w == WalkPath(entry_point[1], <<>>) IN
    (w.simple /\ \A j \in 1..Len(w.path) : nodes[w.path[j]] # "fail") =>
       /\ IsPrefix(calls[1], w.path)
       /\ pc[1] = "done" =>
            /\ calls[1] = w.path
            /\ IsOk(result[1], RunPath(w.path, initial_state[1]))

C1_Witness ==
  /\ pc[1] = "done"
  /\ calls[1] = <<"B", "A">>
  /\ result[1].kind = "Ok"
  /\ WalkPath(entry_point[1], <<>>).simple
  /\ Len(edges["B"]) = 2

\* C2: in one invoke no node name's capability is called twice: arriving at a
\* name that was already called ends the invoke with the cycle error and
\* without another call; on A -> B -> A with entry A, A and B are called once
\* each and the error is returned.
C2_NoNodeCalledTwice ==
  /\ [](NoDuplicates(calls[1]))
  /\ []((/\ pc[1] = "done"
         /\ entry_point = Some("A")
         /\ {"A", "B"} \subseteq DOMAIN nodes
         /\ nodes["A"] # "fail" /\ nodes["B"] # "fail"
         /\ edges["A"] # <<>> /\ edges["A"][1] = "B"
         /\ edges["B"] # <<>> /\ edges["B"][1] = "A")
        => (/\ calls[1] = <<"A", "B">>
            /\ IsErr(result[1], <<"Cycle detected in graph execution">>)))
  /\ [][(pc[1] = "loop" /\ current_node[1] # end_node
           /\ current_node[1] \in Range(calls[1]))
        => (/\ pc'[1] = "done"
            /\ IsErr(result'[1], <<"Cycle detected in graph execution">>)
            /\ calls'[1] = calls[1])]_vars

C2_Witness ==
  /\ pc[1] = "done"
  /\ calls[1] = <<"A", "B">>
  /\ current_node[1] = "A"
  /\ IsErr(result[1], <<"Cycle detected in graph execution">>)

\* C3 (as stated): every started invoke, on every graph, returns Ok or Err
\* after at most as many capability calls as there are registered nodes.  A
\* stopped invocation that has not returned refutes it.
C3_EveryInvokeReturns ==
  /\ Len(calls[1]) <= Cardinality(DOMAIN nodes)
  /\ pc[1] # "idle" => (pc[1] = "done" \/ ENABLED (LoopHead(1) \/ NodeReturn(1)))

\* C3 (graphs with an entry point): every invoke on a graph whose entry point is set eventually
\* returns Ok or Err, after at most as many capability calls as there are
\* registered nodes.
C3_InvokeWithEntryReturns ==
  /\ [](Len(calls[1]) <= Cardinality(DOMAIN nodes))
  /\ [](Running(1) => entry_point # None)
  /\ (Running(1) ~> (pc[1] = "done" /\ result[1].kind \in {"Ok", "Err"}))

C3_Witness ==
  /\ pc[1] = "done"
  /\ IsErr(result[1], <<"Cycle detected in graph execution">>)
  /\ "A" \in DOMAIN edges
  /\ edges["A"] = <<"A">>
  /\ calls[1] = <<"A">>

\* C8: when the capability of the visited node returns an error, invoke
\* returns that error at once: no further node is called, the state is not
\* changed by the failing node, and an Err, not a state, is returned.
C8_NodeErrorAborts ==
  /\ [][(pc[1] = "awaiting"
           /\ NodeFunction_call(nodes[current_node[1]], current_state[1]).kind = "Err")
        => (/\ pc'[1] = "done"
            /\ result'[1] = NodeFunction_call(nodes[current_node[1]], current_state[1])
            /\ current_state'[1] = current_state[1]
            /\ calls'[1] = calls[1])]_vars
  /\ []((pc[1] = "done" /\ calls[1] # <<>> /\ nodes[calls[1][Len(calls[1])]] = "fail")
        => (/\ IsErr(result[1], <<"node failed">>)
            /\ current_state[1] =
                 RunPath(SubSeq(calls[1], 1, Len(calls[1]) - 1), initial_state[1])))

C8_Witness ==
  /\ pc[1] = "done"
  /\ calls[1] = <<"A">>
  /\ nodes["A"] = "fail"
  /\ "A" \in DOMAIN edges
  /\ edges["A"] = <<"B">>
  /\ "B" \in DOMAIN nodes
  /\ IsErr(result[1], <<"node failed">>)
  /\ initial_state[1].messages = <<"user">>

\* the messages an update appends
UpdateMessages(u) == IF u.messages = None THEN <<>> ELSE u.messages[1]

\* C10: during an invoke the message sequence only grows by appending, and
\* the final messages are the initial messages followed by the messages each
\* visited node returned, in visit order and in the order the node listed them.
C10_MessagesAppendOnly ==
  /\ [][Running(1) =>
          IsPrefix(current_state[1].messages, current_state'[1].messages)]_vars
  /\ []((pc[1] = "done" /\ result[1].kind = "Ok")
        => result[1].value.messages =
             initial_state[1].messages
               \o Flatten([j \in 1..Len(updates[1]) |-> UpdateMessages(updates[1][j])]))

C10_Witness ==
  /\ pc[1] = "done"
  /\ result[1].kind = "Ok"
  /\ result[1].value.messages = <<"user", "sig", "why", "sig", "why">>

-----------------------------------------------------------------------------
(* Properties of AgentState::update_from_partial *)

Lookup(m, k) == IF k \in DOMAIN m THEN Some(m[k]) ELSE None

Sets(field, k) == field # None /\ k \in DOMAIN field[1]

\* the value the claim gives key k after u1 then u2
LastWrite(before, f1, f2, k) ==
  IF Sets(f2, k) THEN Some(f2[1][k])
  ELSE IF Sets(f1, k) THEN Some(f1[1][k])
  ELSE Lookup(before, k)

\* C9: after update_from_partial(u1) then update_from_partial(u2), every
\* data key and every metadata key holds u2's value if u2 sets it, otherwise
\* u1's value if u1 sets it, otherwise the value it had before; a key an
\* update does not mention is left unchanged by that update.
C9_LastWriteWins ==
  /\ applied = 2 =>
       /\ \A k \in DataKeys :
            Lookup(self.data, k) = LastWrite(self0.data, u1.data, u2.data, k)
       /\ \A k \in MetaKeys :
            Lookup(self.metadata, k) = LastWrite(self0.metadata, u1.metadata, u2.metadata, k)
  /\ applied = 1 =>
       /\ \A k \in DataKeys :
            ~Sets(u1.data, k) => Lookup(self.data, k) = Lookup(self0.data, k)
       /\ \A k \in MetaKeys :
            ~Sets(u1.metadata, k) => Lookup(self.metadata, k) = Lookup(self0.metadata, k)

C9_Witness ==
  /\ applied = 2
  /\ Sets(u1.data, "k") /\ Sets(u2.data, "k") /\ u1.data[1]["k"] = 1 /\ u2.data[1]["k"] = 2
  /\ Sets(u1.data, "j") /\ ~Sets(u2.data, "j") /\ "j" \in DOMAIN self0.data
  /\ u1.data[1]["j"] # self0.data["j"]
  /\ self.data = ("k" :> 2) @@ ("j" :> u1.data[1]["j"])

-----------------------------------------------------------------------------
(* Properties of the Cache *)

Setters ==
  {"set_prices", "set_financial_metrics", "set_line_items",
   "set_insider_trades", "set_company_news"}

FieldOf(method) ==
  CASE method \in {"set_prices", "get_prices"} -> "price_cache"
    [] method \in {"set_financial_metrics", "get_financial_metrics"} -> "financial_metric_cache"
    [] method \in {"set_line_items", "get_line_items"} -> "line_items_cache"
    [] method \in {"set_insider_trades", "get_insider_trades"} -> "insider_trades_cache"
    [] method \in {"set_company_news", "get_company_news"} -> "company_news_cache"

\* C4 (as stated): after any sequence of successful sets on a (category,
\* key), with string identity values, no two cached records of the key have
\* the same identity-field value.
C4_NoDuplicateIdentity ==
  \A field \in CacheFields, ticker \in Tickers :
    LET e == Cache_get(cache, field, ticker)
        kf == KeyField(field) IN
    \A i, j \in 1..Len(e) :
      (kf \in DOMAIN e[i] /\ kf \in DOMAIN e[j] /\ e[i][kf] = e[j][kf]) => i = j

\* C4 (the example of the claim, as the code has it): set_prices("AAPL", [t1])
\* followed by set_prices("AAPL", [t1 with other fields, t2]) leaves three
\* records, the second a duplicate of t1.
C4_ExampleAsCoded ==
  /\ last_call = [method |-> "set_prices", ticker |-> "AAPL",
                  data |-> << ("time" :> T1) @@ ("open" :> Num(<<"2">>)),
                              ("time" :> T2) @@ ("open" :> Num(<<"1">>)) >>]
  /\ cache_ret.kind = "Ok"
  /\ Cache_get(cache, "price_cache", "AAPL") =
       << ("time" :> T1) @@ ("open" :> Num(<<"1">>)),
          ("time" :> T1) @@ ("open" :> Num(<<"2">>)),
          ("time" :> T2) @@ ("open" :> Num(<<"1">>)) >>

\* C5: a set given a record that lacks the category's identity field returns
\* the missing-key-field error and leaves the cache as it was, also when
\* earlier records of the batch were valid and not yet cached.
C5_FailedSetLeavesCache ==
  [][(/\ last_call'.method \in Setters
      /\ \E j \in 1..Len(last_call'.data) :
           KeyField(FieldOf(last_call'.method)) \notin DOMAIN last_call'.data[j])
     => (/\ cache' = cache
         /\ IsErr(cache_ret',
                  <<"Missing key field: ", KeyField(FieldOf(last_call'.method))>>))]_vars

C5_Witness ==
  /\ last_call = [method |-> "set_prices", ticker |-> "AAPL",
                  data |-> << ("time" :> T2) @@ ("open" :> Num(<<"1">>)),
                              ("open" :> Num(<<"1">>)) >>]
  /\ IsErr(cache_ret, <<"Missing key field: ", "time">>)
  /\ Cache_get(cache, "price_cache", "AAPL") = << ("time" :> T1) @@ ("open" :> Num(<<"1">>)) >>

-----------------------------------------------------------------------------
(* Properties of get_price on the global Cache *)

\* task p has just run the lookup under the guard
LookedUp(p) == api_pc[p] = "lookup" /\ api_pc'[p] # "lookup"

\* C6: whatever the interleaving of the tasks, the sequence a get returns is
\* a whole one: it is the serial merge of the sets that have been done (the
\* sequence after each of them, before each set still to come), and no set
\* is between its read and its insert when the get runs.
C6_GetSeesWholeSequence ==
  [][\A p \in Tasks :
       LookedUp(p) =>
         /\ api_got'[p] = serial[api_ticker[p]]
         /\ \A q \in Tasks : api_pc[q] # "merge"]_vars

\* two tasks have read the key, one before the set of the third and one
\* after it, while the first is still to write
C6_Witness ==
  /\ api_ticker = [p \in Tasks |-> "AAPL"]
  /\ api_pc[1] = "lock" /\ api_got[1] = <<>>
  /\ api_pc[2] = "idle" /\ api_ret[2] = Ok(<<PriceOf(<<"t", "1">>, <<"1">>), PriceOf(<<"t", "2">>, <<"1">>)>>)
  /\ api_pc[3] = "idle"
  /\ api_got[3] = <<Price_to_map(PriceOf(<<"t", "1">>, <<"1">>)),
                    Price_to_map(PriceOf(<<"t", "2">>, <<"1">>))>>
  /\ api_ret[3] = Ok(<<PriceOf(<<"t", "1">>, <<"1">>), PriceOf(<<"t", "2">>, <<"1">>)>>)

-----------------------------------------------------------------------------
(* Properties of two invocations on one compiled graph *)

\* what invoke returns when nothing else runs: the loop of invoke from node
\* n with state s and the set seen of visited names
RECURSIVE InvokeAlone(_, _, _)
InvokeAlone(n, s, seen) ==
  IF n = end_node THEN Ok(s)
  ELSE IF n \in seen THEN Err(<<"Cycle detected in graph execution">>)
  ELSE IF n \notin DOMAIN nodes THEN Err(<<"Node not found: ", n>>)
  ELSE LET update == NodeFunction_call(nodes[n], s) IN
       IF update.kind = "Err" THEN update
       ELSE IF n \notin DOMAIN edges THEN Err(<<"No edges defined for node: ", n>>)
       ELSE IF edges[n] = <<>> THEN Err(<<"Dead end at node: ", n>>)
       ELSE InvokeAlone(edges[n][1], update_from_partial(s, update.value), seen \cup {n})

LocalsOf(j) ==
  <<pc[j], current_state[j], current_node[j], visited[j], result[j], initial_state[j],
    calls[j], updates[j]>>

\* C7: of two invocations taking turns on one compiled graph, each returns
\* what it returns when run alone on its initial state, and a step of one
\* leaves the state, the visited set, the current node and the other locals
\* of the other as they were, and the graph as it was.
C7_InvocationsDoNotInterfere ==
  /\ [](\A i \in Invocations :
          pc[i] = "done" => result[i] = InvokeAlone(entry_point[1], initial_state[i], {}))
  /\ [][/\ \A i, j \in Invocations : (i # j /\ pc'[i] # pc[i]) => LocalsOf(j)' = LocalsOf(j)
        /\ gvars' = gvars]_vars

\* both invocations are in flight on A -> B -> END, from different initial
\* states: the first has merged the update of A and awaits B, the second
\* awaits A
C7_Witness ==
  /\ entry_point = Some("A")
  /\ "A" \in DOMAIN edges /\ edges["A"] = <<"B">>
  /\ "B" \in DOMAIN edges /\ edges["B"] = <<"END">>
  /\ nodes = ("A" :> "analyst") @@ ("B" :> "analyst")
  /\ initial_state[1] # initial_state[2]
  /\ pc[1] = "awaiting" /\ current_node[1] = "B" /\ visited[1] = {"A", "B"}
  /\ current_state[1] =
       update_from_partial(initial_state[1],
                           NodeFunction_call("analyst", initial_state[1]).value)
  /\ pc[2] = "awaiting" /\ current_node[2] = "A" /\ visited[2] = {"A"}
  /\ current_state[2] = initial_state[2]

-----------------------------------------------------------------------------
(* Further properties of CompiledGraph::invoke *)

Last(s) == s[Len(s)]

DeadEndAt(n) == <<"Dead end at node: ", n>>

\* C11: when invoke is at a registered node other than END whose successor
\* list is empty and the node's capability, which has been called, succeeds,
\* invoke ends there with the dead-end error naming the node and returns no
\* state; the dead-end error is only ever returned for the node called last,
\* after its capability has succeeded.
C11_DeadEndAfterCall ==
  /\ [][(/\ pc[1] = "awaiting"
         /\ edges[current_node[1]] = <<>>
         /\ NodeFunction_call(nodes[current_node[1]], current_state[1]).kind = "Ok")
        => (/\ pc'[1] = "done"
            /\ IsErr(result'[1], DeadEndAt(current_node[1]))
            /\ calls'[1] = calls[1]
            /\ Last(calls[1]) = current_node[1])]_vars
  /\ [](\A n \in Names :
          (pc[1] = "done" /\ IsErr(result[1], DeadEndAt(n))) =>
             /\ n # end_node /\ n \in DOMAIN nodes /\ edges[n] = <<>>
             /\ calls[1] # <<>> /\ Last(calls[1]) = n
             /\ nodes[n] # "fail"
             /\ Len(updates[1]) = Len(calls[1]))

\* B was registered and no edge was added from it: A -> B, both called, then
\* the dead end at B
C11_Witness ==
  /\ pc[1] = "done"
  /\ IsErr(result[1], DeadEndAt("B"))
  /\ calls[1] = <<"A", "B">>
  /\ Len(updates[1]) = 2
  /\ "B" \in DOMAIN edges /\ edges["B"] = <<>>

-----------------------------------------------------------------------------
(* Further properties of the Cache *)

\* s can be obtained from t by leaving records out
RECURSIVE IsSubsequence(_, _)
IsSubsequence(s, t) ==
  IF s = <<>> THEN TRUE
  ELSE IF t = <<>> THEN FALSE
  ELSE IF Head(s) = Head(t) THEN IsSubsequence(Tail(s), Tail(t))
  ELSE IsSubsequence(s, Tail(t))

\* C12: for every successful set on a (category, key), the sequence cached
\* before is a prefix of the sequence cached after, the records after that
\* prefix are records of the batch in the order they were given, and the
\* sequences of the other keys and categories are as before.
C12_SetExtendsCachedPrefix ==
  [][(last_call'.method \in Setters /\ cache_ret'.kind = "Ok") =>
       LET f == FieldOf(last_call'.method)
           t == last_call'.ticker
           before == Cache_get(cache, f, t)
           after == Cache_get(cache', f, t) IN
       /\ IsPrefix(before, after)
       /\ IsSubsequence(SubSeq(after, Len(before) + 1, Len(after)), last_call'.data)
       /\ \A g \in CacheFields, u \in Tickers :
            <<g, u>> # <<f, t>> => Cache_get(cache', g, u) = Cache_get(cache, g, u)]_vars

\* a set on a key that holds a record has appended a record of the batch
C12_Witness ==
  /\ last_call = [method |-> "set_financial_metrics", ticker |-> "AAPL",
                  data |-> << ("report_period" :> T1) @@ ("open" :> Num(<<"1">>)) >>]
  /\ cache_ret.kind = "Ok"
  /\ Len(Cache_get(cache, "financial_metric_cache", "AAPL")) = 2

\* C13 (as stated): a set that repeats the call made just before it, with
\* the same batch on the same (category, key), both successful, leaves the
\* cache as the first of the two left it.
C13_SetTwiceAsOnce ==
  [][(/\ last_call.method \in Setters
      /\ last_call' = last_call
      /\ cache_ret.kind = "Ok"
      /\ cache_ret'.kind = "Ok")
     => cache' = cache]_vars

\* C13 (as the code has it): set_company_news("AAPL", [d]) made twice in a
\* row leaves the record d twice.
C13_RepeatedSetAsCoded ==
  /\ last_call = [method |-> "set_company_news", ticker |-> "AAPL",
                  data |-> << ("date" :> T1) @@ ("open" :> Num(<<"1">>)) >>]
  /\ cache_ret.kind = "Ok"
  /\ Cache_get(cache, "company_news_cache", "AAPL") =
       << ("date" :> T1) @@ ("open" :> Num(<<"1">>)),
          ("date" :> T1) @@ ("open" :> Num(<<"1">>)) >>

-----------------------------------------------------------------------------
(* Further properties of get_price on the global Cache *)

P1 == PriceOf(<<"t", "1">>, <<"1">>)
P2 == PriceOf(<<"t", "2">>, <<"1">>)

\* C14: the sets that tasks make on a key while their calls overlap leave the
\* sequence obtained by making them one after the other, in the order in
\* which they insert: a set holds the guard from its read to its insert and
\* inserts the merge of what is cached then, so no record a set has accepted
\* is lost.
C14_ConcurrentSetsAsSerial ==
  /\ \A t \in Tickers : Cache_get(cache, "price_cache", t) = serial[t]
  /\ \A p \in Tasks :
       api_pc[p] = "merge" =>
         /\ cache_lock = p
         /\ api_existing[p] = Cache_get(cache, "price_cache", api_ticker[p])

\* tasks 1 and 2 both missed on AAPL, both fetched, and both have set: the
\* records of both are cached, those of the first to insert first
C14_Witness ==
  /\ api_ticker[1] = "AAPL" /\ api_ticker[2] = "AAPL"
  /\ api_got[1] = <<>> /\ api_got[2] = <<>>
  /\ api_pc[1] = "idle" /\ api_pc[2] = "idle"
  /\ api_ret[1] = Ok(<<P1>>) /\ api_ret[2] = Ok(<<P2>>)
  /\ Cache_get(cache, "price_cache", "AAPL") = <<Price_to_map(P2), Price_to_map(P1)>>

-----------------------------------------------------------------------------
(* Properties of invoke on graphs with a missing entry point, unregistered *)
(* names and several successors                                            *)

\* C15 (as stated): an invoke on a compiled graph whose entry point was never
\* set has returned an error to its caller, and has called no node.
C15_NoEntryPointReturnsErr ==
  (pc[1] # "idle" /\ entry_point = None) =>
     /\ pc[1] = "done"
     /\ result[1].kind = "Err"
     /\ calls[1] = <<>>

\* C15 (as the code has it): the invoke has stopped in the panic of expect(),
\* with nothing returned and no node called.
C15_NoEntryPointAsCoded ==
  /\ compiled /\ entry_point = None /\ nodes # EmptyMap
  /\ pc[1] = "panicked"
  /\ calls[1] = <<>>

NodeNotFound(n) == <<"Node not found: ", n>>

\* the names from the entry point along first successors up to, not
\* including, the name n
RECURSIVE PathTo(_, _, _)
PathTo(m, n, acc) ==
  IF m = n \/ m = end_node \/ m \in Range(acc) \/ m \notin DOMAIN edges \/ edges[m] = <<>>
  THEN acc
  ELSE PathTo(edges[m][1], n, Append(acc, m))

\* C16: when the walk is at a name that is not END and has no capability,
\* invoke ends with the unknown-node error naming it, without a call; the
\* error is returned only for such a name, reached as the entry point or as
\* the first successor of the node called last, after every node before it
\* on the path has been called and has succeeded.
C16_UnknownNodeNamed ==
  /\ [][(/\ pc[1] = "loop"
         /\ current_node[1] # end_node
         /\ current_node[1] \notin DOMAIN nodes)
        => (/\ pc'[1] = "done"
            /\ IsErr(result'[1], NodeNotFound(current_node[1]))
            /\ calls'[1] = calls[1])]_vars
  /\ [](\A n \in Names :
          (pc[1] = "done" /\ IsErr(result[1], NodeNotFound(n))) =>
             /\ n # end_node /\ n \notin DOMAIN nodes
             /\ calls[1] = PathTo(entry_point[1], n, <<>>)
             /\ Len(updates[1]) = Len(calls[1])
             /\ IF calls[1] = <<>> THEN entry_point = Some(n)
                ELSE edges[Last(calls[1])][1] = n)

\* add_edge("A", "B") and compile were accepted with B never registered: A
\* is called, then the error names B
C16_Witness ==
  /\ compiled
  /\ DOMAIN nodes = {"A"}
  /\ entry_point = Some("A")
  /\ edges["A"] = <<"B">>
  /\ pc[1] = "done"
  /\ calls[1] = <<"A">>
  /\ IsErr(result[1], NodeNotFound("B"))

\* the nodes a run of the hedge-fund workflow calls when none fails and the
\* selection holds the analyst of the configuration
WorkflowRun ==
  <<"start_node", "warren_buffett_agent", "risk_management_agent", "portfolio_manager">>

\* C17: invoke goes from a node to the successor that add_edge gave it
\* first, whatever other successors were added: the nodes called are the
\* entry point and then, each time, the first successor of the node called
\* before, so a node that is only a second or later successor is not called.
\* In the hedge-fund workflow the run goes from start_node to the analyst
\* whose edge was added first, then to the risk manager and the portfolio
\* manager.
C17_FirstSuccessorOnly ==
  /\ [][(pc[1] = "awaiting" /\ pc'[1] = "loop")
        => current_node'[1] = Head(edges[current_node[1]])]_vars
  /\ [](\A j \in 1..Len(calls[1]) :
          calls[1][j] = IF j = 1 THEN entry_point[1] ELSE Head(edges[calls[1][j - 1]]))
  /\ []("start_node" \in DOMAIN nodes =>
          /\ IsPrefix(calls[1], WorkflowRun)
          /\ (pc[1] = "done" /\ result[1].kind = "Ok") => calls[1] = WorkflowRun)

\* the workflow made for a selection that names the analyst twice: start_node
\* has two successors and the run calls the four nodes once each
C17_WorkflowRun ==
  /\ "start_node" \in DOMAIN nodes
  /\ Len(edges["start_node"]) = 2
  /\ pc[1] = "done" /\ result[1].kind = "Ok"
  /\ calls[1] = WorkflowRun

\* B is registered and is the second successor of A, after END: the invoke
\* has returned Ok with A called and B not
C17_Witness ==
  /\ entry_point = Some("A")
  /\ {"A", "B"} \subseteq DOMAIN nodes
  /\ edges["A"] = <<end_node, "B">>
  /\ pc[1] = "done"
  /\ result[1].kind = "Ok"
  /\ calls[1] = <<"A">>

-----------------------------------------------------------------------------
(* Properties of the getters of the Cache *)

Getters ==
  {"get_prices", "get_financial_metrics", "get_line_items",
   "get_insider_trades", "get_company_news"}

\* C18: a (category, key) has an entry only once a set on it has succeeded;
\* a get on a (category, key) without an entry returns Ok with the empty
\* sequence, and every get leaves the cache as it was, without an entry for
\* the key it asked for.
C18_GetOfNothingCached ==
  /\ [][\A f \in CacheFields, t \in Tickers :
          (t \in DOMAIN cache'[f] /\ t \notin DOMAIN cache[f]) =>
            /\ last_call'.method \in Setters /\ FieldOf(last_call'.method) = f
            /\ last_call'.ticker = t
            /\ cache_ret'.kind = "Ok"]_vars
  /\ [][last_call'.method \in Getters =>
          /\ cache' = cache
          /\ last_call'.ticker \notin DOMAIN cache[FieldOf(last_call'.method)]
               => cache_ret' = Ok(<<>>)]_vars

\* get_prices("MSFT") with prices cached for AAPL only
C18_Witness ==
  /\ last_call = [method |-> "get_prices", ticker |-> "MSFT", data |-> <<>>]
  /\ cache_ret = Ok(<<>>)
  /\ DOMAIN cache["price_cache"] = {"AAPL"}
  /\ Cache_get(cache, "price_cache", "AAPL") # <<>>

-----------------------------------------------------------------------------
(* Properties of the name END and of the outcomes of invoke *)

\* C19: the walk stops as soon as the current name is END, returning the
\* current state: no capability is ever called under the name END, also when
\* one is registered under it, and an invoke whose entry point is END returns
\* its initial state with no capability called.
C19_EndNeverInvoked ==
  /\ [][(pc[1] = "loop" /\ current_node[1] = end_node)
        => (/\ pc'[1] = "done"
            /\ IsOk(result'[1], current_state[1])
            /\ calls'[1] = calls[1])]_vars
  /\ [](end_node \notin Range(calls[1]))
  /\ []((pc[1] = "done" /\ entry_point = Some(end_node))
        => (IsOk(result[1], initial_state[1]) /\ calls[1] = <<>>))

\* a capability is registered under END and END is the entry point: the
\* invoke has returned the initial state it was given, with no call
C19_Witness ==
  /\ end_node \in DOMAIN nodes
  /\ entry_point = Some(end_node)
  /\ pc[1] = "done"
  /\ initial_state[1] # AgentState_new
  /\ IsOk(result[1], initial_state[1])
  /\ calls[1] = <<>>

StructureErrors ==
  {"Cycle detected in graph execution", "Node not found: ", "Dead end at node: "}

\* C20 (as stated): an invoke that has ended has returned a final state or
\* one error, and an error of the structure of the graph (cycle detected,
\* unknown node, dead end) carries the name of the node at which the walk
\* failed.
C20_StructureErrorsNameNode ==
  pc[1] = "done" =>
    /\ result[1].kind \in {"Ok", "Err"}
    /\ (result[1].kind = "Err" /\ result[1].value[1] \in StructureErrors)
         => current_node[1] \in Range(result[1].value)

\* C20 (as the code has it): on A -> B -> A the walk fails on its return to A
\* and the error is the text "Cycle detected in graph execution" alone.
C20_CycleErrorAsCoded ==
  /\ entry_point = Some("A")
  /\ "A" \in DOMAIN edges /\ edges["A"] = <<"B">>
  /\ "B" \in DOMAIN edges /\ edges["B"] = <<"A">>
  /\ pc[1] = "done"
  /\ calls[1] = <<"A", "B">>
  /\ current_node[1] = "A"
  /\ result[1] = Err(<<"Cycle detected in graph execution">>)

-----------------------------------------------------------------------------
(* Properties of the order of the calls within one invoke *)

\* the state s with the updates us merged into it, in order
RECURSIVE MergeAll(_, _)
MergeAll(s, us) ==
  IF us = <<>> THEN s ELSE MergeAll(update_from_partial(s, Head(us)), Tail(us))

\* C21: within one invoke the calls are made one at a time: the k-th call is
\* made once the updates of the k-1 calls before it have been merged, the
\* state it is given is the initial state with those k-1 updates merged in
\* the order of the calls, and no call is made while one is awaited.
C21_CallsStrictlySequential ==
  /\ [](pc[1] = "awaiting" =>
          /\ Len(updates[1]) = Len(calls[1]) - 1
          /\ current_state[1] = MergeAll(initial_state[1], updates[1]))
  /\ [](pc[1] = "loop" =>
          /\ Len(updates[1]) = Len(calls[1])
          /\ current_state[1] = MergeAll(initial_state[1], updates[1]))
  /\ [][pc[1] = "awaiting" => calls'[1] = calls[1]]_vars
  /\ [][calls'[1] # calls[1] =>
          (pc'[1] = "idle" \/ (pc[1] = "loop" /\ Len(calls'[1]) = Len(updates[1]) + 1))]_vars

\* the second node of A -> B awaits its call with the update of A merged into
\* the state given to invoke
C21_Witness ==
  /\ pc[1] = "awaiting"
  /\ calls[1] = <<"A", "B">>
  /\ nodes["A"] = "analyst"
  /\ initial_state[1] # AgentState_new
  /\ Len(updates[1]) = 1
  /\ current_state[1] = update_from_partial(initial_state[1], updates[1][1])
  /\ current_state[1] # initial_state[1]

-----------------------------------------------------------------------------
(* Properties of add_node called again for a name *)

\* C22: each name is bound to the capability of the latest add_node call
\* for it, an add_node call leaves the successors of every name as they were
\* (a name it registers for the first time gets the empty list), and the
\* updates and the error that invoke gets from its calls are those of the
\* latest registered capabilities.
C22_LastRegistrationWins ==
  /\ [](nodes = registered)
  /\ [][registered' # registered =>
          \A n \in DOMAIN edges' :
            edges'[n] = IF n \in DOMAIN edges THEN edges[n] ELSE <<>>]_vars
  /\ [](\A j \in 1..Len(updates[1]) :
          Ok(updates[1][j]) =
            NodeFunction_call(registered[calls[1][j]],
                              MergeAll(initial_state[1], SubSeq(updates[1], 1, j - 1))))
  /\ []((pc[1] = "done" /\ Len(updates[1]) < Len(calls[1])) =>
          result[1] = NodeFunction_call(registered[Last(calls[1])], current_state[1]))

\* A was registered with the failing capability and then again with the
\* analyst: the invoke has called the analyst and gone on along the edge
\* added from A
C22_Witness ==
  /\ entry_point = Some("A")
  /\ {"A", "B"} \subseteq DOMAIN nodes
  /\ nodes["A"] = "analyst"
  /\ edges["A"] = <<"B">>
  /\ nodes["B"] = "start"
  /\ pc[1] = "done"
  /\ calls[1] = <<"A", "B">>
  /\ Len(updates[1]) >= 1
  /\ updates[1][1] = NodeFunction_call("analyst", initial_state[1]).value

-----------------------------------------------------------------------------
(* Properties of what a set leaves alone *)

\* the entries of a cache without the one of (field, ticker)
OtherEntries(c, field, ticker) ==
  [g \in CacheFields |->
     [u \in DOMAIN c[g] \ (IF g = field THEN {ticker} ELSE {}) |-> c[g][u]]]

\* C28: a set on a (category, key), successful or failed, leaves the entries
\* of every other key of the category and of the four other categories as
\* they were: the same keys with the same sequences.
C28_SetChangesOneEntry ==
  [][last_call'.method \in Setters =>
       LET f == FieldOf(last_call'.method)
           t == last_call'.ticker IN
       /\ DOMAIN cache' = DOMAIN cache
       /\ OtherEntries(cache', f, t) = OtherEntries(cache, f, t)]_vars

\* a failed set_prices for AAPL: the prices of MSFT and the news of AAPL are
\* cached beside it
C28_Witness ==
  /\ last_call.method = "set_prices"
  /\ last_call.ticker = "AAPL"
  /\ cache_ret.kind = "Err"
  /\ Len(Cache_get(cache, "price_cache", "MSFT")) = 1
  /\ Len(Cache_get(cache, "company_news_cache", "AAPL")) = 1

-----------------------------------------------------------------------------
(* Properties of get_price calls that miss together *)

\* task p missed on ticker t, fetched prices and has set them
MissedAndSet(p, t) ==
  /\ api_ticker[p] = t
  /\ api_pc[p] = "idle"
  /\ api_got[p] = <<>>
  /\ api_ret[p].kind = "Ok"
  /\ api_ret[p].value # <<>>

\* C25 (as stated): once two tasks that both missed on a ticker have both
\* fetched and both set their prices, the cached sequence of the ticker holds
\* each "time" value once.
C25_EachTimeOnce ==
  \A t \in Tickers :
    (MissedAndSet(1, t) /\ MissedAndSet(2, t)) =>
      LET e == Cache_get(cache, "price_cache", t) IN
      \A i, j \in 1..Len(e) : e[i]["time"] = e[j]["time"] => i = j

\* C25 (as the code has it): both tasks missed on AAPL, both fetched the price
\* of t1 and both set it; the record of t1 is cached twice.
C25_DuplicateAsCoded ==
  /\ MissedAndSet(1, "AAPL") /\ MissedAndSet(2, "AAPL")
  /\ api_ret[1] = Ok(<<P1>>) /\ api_ret[2] = Ok(<<P1>>)
  /\ Cache_get(cache, "price_cache", "AAPL") = <<Price_to_map(P1), Price_to_map(P1)>>

-----------------------------------------------------------------------------
(* Properties of get_price on a ticker whose prices are cached *)

\* the cached records of ticker t that deserialize as a Price
CachedPrices(c, t) == prices_from_maps(Cache_get(c, "price_cache", t))

\* the tasks that missed on ticker t and have not returned yet
Pending(t) ==
  {p \in Tasks : api_ticker[p] = t /\ api_pc[p] \in {"fetch", "lock", "merge"}}

\* C27: from the moment a cached record of a ticker deserializes as a Price,
\* one does in every later state; a lookup of the ticker made then returns
\* the cached prices and leaves the cache alone, and the task goes to no
\* request; no further task comes to miss on the ticker, and the entry is
\* written by the tasks that had missed before only, once each: with no task
\* left between its miss and its write the entry is not written again.
C27_CachedPricesAreReturned ==
  [][\A t \in Tickers :
       /\ CachedPrices(cache, t) # <<>> =>
            /\ CachedPrices(cache', t) # <<>>
            /\ Pending(t)' \subseteq Pending(t)
            /\ \A p \in Tasks :
                 (LookedUp(p) /\ api_ticker[p] = t) =>
                   /\ api_ret'[p] = Ok(CachedPrices(cache, t))
                   /\ api_pc'[p] = "idle"
                   /\ cache' = cache
       /\ cache'["price_cache"] # cache["price_cache"] =>
            \E p \in Tasks : api_pc[p] = "merge" /\ api_pc'[p] = "idle"
       /\ Cache_get(cache', "price_cache", t) # Cache_get(cache, "price_cache", t) =>
            /\ Pending(t)' # Pending(t)
            /\ Pending(t)' \subseteq Pending(t)]_vars

\* task 1 missed on AAPL, fetched and set; tasks 2 and 3 called get_price for
\* AAPL after that and got the cached prices, and the entry is as task 1
\* wrote it
C27_Witness ==
  /\ api_ticker = [p \in Tasks |-> "AAPL"]
  /\ api_calls = 3
  /\ \A p \in Tasks : api_pc[p] = "idle"
  /\ api_got[1] = <<>>
  /\ api_ret[1] = Ok(<<P1, P2>>)
  /\ api_got[2] = <<Price_to_map(P1), Price_to_map(P2)>>
  /\ api_ret[2] = Ok(<<P1, P2>>)
  /\ api_ret[3] = Ok(<<P1, P2>>)
  /\ api_got[3] # <<>>
  /\ Cache_get(cache, "price_cache", "AAPL") = <<Price_to_map(P1), Price_to_map(P2)>>

-----------------------------------------------------------------------------
(* Properties of the fetch functions and the lock of the cache *)

\* the positions at which a task is suspended on the network
Suspended == {"fetch", "fm_fetch", "it_fetch", "cn_fetch", "li_fetch"}

\* the positions at which a task waits for the lock of the cache
Waiting == {"lock", "fm_lock", "cn_lock"}

\* the positions at which a task runs with the guard alive
UnderGuard == {"lookup", "merge", "fm_lookup", "fm_merge", "it_lookup", "cn_lookup", "cn_merge"}

\* the step a task takes under the guard
GuardedStep(p) ==
  \/ CacheLookup(p) \/ MergeAndInsert(p)
  \/ MetricsLookup(p) \/ MetricsMergeAndInsert(p)
  \/ TradesLookup(p)
  \/ NewsLookup(p) \/ NewsMergeAndInsert(p)

\* the step with which a waiting task takes the lock
LockStep(p) == LockAndRead(p) \/ MetricsLockAndRead(p) \/ NewsLockAndRead(p)

\* C26: a task suspended on a request of get_price, get_financial_metrics,
\* get_insider_trade or get_company_news does not hold the lock of the cache;
\* the lock is held by tasks inside a lookup or a write only, whose next step
\* releases it without waiting for anything; so whenever tasks wait for the
\* lock, the holder can step, or the lock is free and a waiting task can take
\* it: the tasks are never all blocked on the cache.
C26_NoLockAcrossFetch ==
  /\ \A p \in FetchTasks : api_pc[p] \in Suspended => cache_lock # p
  /\ cache_lock # 0 => api_pc[cache_lock] \in UnderGuard
  /\ \A p \in FetchTasks :
       api_pc[p] \in Waiting =>
         IF cache_lock = 0 THEN ENABLED LockStep(p) ELSE ENABLED GuardedStep(cache_lock)

\* task 1 is suspended on its request while task 2, which called after it,
\* holds the lock for its own lookup
C26_Witness ==
  /\ api_pc[1] \in {"fetch", "fm_fetch", "it_fetch", "cn_fetch"}
  /\ api_pc[2] \in {"lookup", "fm_lookup", "it_lookup", "cn_lookup"}
  /\ cache_lock = 2

\* C30: the insider-trades and line-items categories of the cache are empty
\* in every state; a get_insider_trade that has come to its lookup (its end
\* date parses) finds nothing cached there and goes on to the request: it
\* returns from the lookup in no case.
C30_InsiderTradesNeverCached ==
  /\ [](/\ cache["insider_trades_cache"] = EmptyMap
        /\ cache["line_items_cache"] = EmptyMap)
  /\ [][\A p \in FetchTasks :
          (api_pc[p] = "it_lookup" /\ api_pc'[p] # "it_lookup") =>
            /\ api_got'[p] = <<>>
            /\ api_pc'[p] = "it_fetch"]_vars

\* a get_insider_trade has fetched trades and returned them, a later one for
\* the same ticker is at its request after a lookup that found nothing
C30_Witness ==
  /\ api_pc[1] = "idle"
  /\ api_ret[1] = Ok(<<TradeOf(None, Some(<<"2", "T", "0">>))>>)
  /\ api_pc[2] = "it_fetch"
  /\ api_ticker[1] = api_ticker[2]
  /\ api_got[2] = <<>>

-----------------------------------------------------------------------------
(* Properties of the workflow made for a selection of unknown analysts *)

\* a selection that is not empty and names no analyst of the configuration
UnknownOnly(selected_analyst) ==
  /\ selected_analyst # None
  /\ selected_analyst[1] # <<>>
  /\ \A j \in 1..Len(selected_analyst[1]) : selected_analyst[1][j] # "warren_buffett"

\* C29: create_workflow gives start_node an empty list of successors exactly
\* for the selections that are not empty and name no known analyst; on the
\* graph compiled from such a workflow invoke calls start_node and nothing
\* else, and returns the dead-end error that names start_node, which is what
\* run_hedge_fund returns.
C29_UnknownSelectionDeadEnd ==
  /\ (~compiled /\ nodes = EmptyMap /\ edges = EmptyMap) =>
       \A sel \in Selections, funcs \in AgentFunctions :
         LET workflow == create_workflow(sel, funcs) IN
         /\ "start_node" \in DOMAIN workflow.edges
         /\ UnknownOnly(sel) <=> workflow.edges["start_node"] = <<>>
  /\ ("start_node" \in DOMAIN edges /\ edges["start_node"] = <<>>) =>
       /\ IsPrefix(calls[1], <<"start_node">>)
       /\ pc[1] = "done" =>
            /\ calls[1] = <<"start_node">>
            /\ IsErr(result[1], DeadEndAt("start_node"))
            /\ run_hedge_fund_try(result[1]) = Some(Err(DeadEndAt("start_node")))

\* the invoke on the workflow of a selection of unknown analysts has returned
C29_Witness ==
  /\ compiled
  /\ {"start_node", "risk_management_agent", "portfolio_manager"} = DOMAIN nodes
  /\ edges["start_node"] = <<>>
  /\ pc[1] = "done"
  /\ calls[1] = <<"start_node">>
  /\ result[1] = Err(DeadEndAt("start_node"))

-----------------------------------------------------------------------------
(* Properties of invoking a compiled graph again *)

\* C24: no step of an invocation changes the nodes, the edges or the entry
\* point of the compiled graph; the invocation made after an earlier one has
\* returned, with a state or with an error, starts with an empty visited set
\* and returns what a first invocation returns on its initial state: on the
\* initial state of the earlier one, the same result after the same calls.
C24_InvokeAgainAsFirst ==
  /\ [][gvars' = gvars]_vars
  /\ [][(pc[2] = "idle" /\ pc'[2] # "idle") =>
          /\ pc[1] = "done"
          /\ visited'[2] = {}
          /\ LocalsOf(1)' = LocalsOf(1)]_vars
  /\ [](pc[2] = "done" =>
          /\ result[2] = InvokeAlone(entry_point[1], initial_state[2], {})
          /\ initial_state[2] = initial_state[1] =>
               (result[2] = result[1] /\ calls[2] = calls[1]))

\* the first invocation went through A and B and returned a state; the
\* second, made after it on the same initial state, has gone through A and B
\* as well and returned the same state
C24_Witness ==
  /\ pc[1] = "done" /\ pc[2] = "done"
  /\ visited[1] = {"A", "B"}
  /\ calls[2] = <<"A", "B">>
  /\ initial_state[2] = initial_state[1]
  /\ result[1].kind = "Ok"
  /\ result[2] = result[1]

-----------------------------------------------------------------------------
(* Properties of a failed set inside get_price *)

\* the latest step was a write block whose set_prices failed on a record
\* without the identity field
SetFailed == last_call.method = "set_prices" /\ IsErr(cache_ret, <<"Missing key field: ", "time">>)

C23_FailureLoggedAsCoded ==
  /\ SetFailed
  /\ api_ret[1] = Ok(<<P1>>)
  /\ risk_manager_try(api_ret[1]) = None

====
